---- MODULE Spec2Model ----
(***************************************************************************)
(* The reconcile passes of the two charms of canonical/notebook-operators: *)
(* jupyter-controller (charms/jupyter-controller/src/charm.py) and         *)
(* jupyter-ui (charms/jupyter-ui/src/charm.py).                            *)
(*                                                                         *)
(* One unit of one charm is modelled.  `charm` says which one and never    *)
(* changes.  The Juju model around the unit (leadership, reachability of   *)
(* the workload container, relations, storages, config) is state that the  *)
(* environment actions change one fact at a time.  Each event handler is   *)
(* one action: it runs the whole handler on the current facts, with the    *)
(* outcomes of its Kubernetes and Pebble calls drawn from small sets, and  *)
(* leaves in `pass` the record of what it did: the event, the calls it     *)
(* issued in order, and the exception that left the handler, if any.       *)
(* `pass` describes the handler that has just returned; an environment     *)
(* change resets it to NoPass, so that in every state with a pass the      *)
(* facts are the ones the handler saw.                                     *)
(***************************************************************************)
EXTENDS Integers, Sequences, FiniteSets, TLC

VARIABLES
    charm,            \* "controller" or "ui"
    leader,           \* unit.is_leader()
    canConnect,       \* container.can_connect()
    relations,        \* names r with model.get_relation(r) not None
    gatewayMetadata,  \* ambient_gateway.get_metadata() is not None
    storages,         \* jupyter-ui: storages whose mount exists in the container
    gpuNumber,        \* jupyter-ui: config["gpu-number-default"]
    config,           \* jupyter-ui: model.config, the text of each of the other keys
    status,           \* unit.status, as last set by the charm
    plan,             \* services of the Pebble plan of the workload container
    cluster,          \* the rendered documents whose object exists in the cluster
    phase,            \* "new" before install, "installed", "removed" after remove
    pass,             \* the handler run that has just returned
    returned,         \* what a config function called since the last handler returned
    sidebar           \* KubeflowDashboardSidebar: its links, the sidebar relations' data

vars == <<charm, leader, canConnect, relations, gatewayMetadata, storages,
          gpuNumber, config, status, plan, cluster, phase, pass, returned, sidebar>>

env == <<charm, leader, canConnect, relations, gatewayMetadata, storages, gpuNumber,
         config>>

(***************************************************************************)
(* Values                                                                  *)
(***************************************************************************)
Conflict == 409
NotFound == 404

\* Outcome of a Kubernetes API call: 0 when it returned normally, else the
\* status code of the ApiError it raised.
ApplyOutcomes == {0, Conflict, 500}
ForcedApplyOutcomes == {0, 500}
DeleteOutcomes == {0, NotFound, 500}

SERVICE_MESH_RELATION == "service-mesh"
AMBIENT_GATEWAY_RELATION == "gateway-metadata"
INGRESS_RELATION == "ingress"
ISTIO_INGRESS_ROUTE_RELATION == "istio-ingress-route"

ControllerRelations == {SERVICE_MESH_RELATION, AMBIENT_GATEWAY_RELATION}
UIRelations == {INGRESS_RELATION, ISTIO_INGRESS_ROUTE_RELATION}
UIStorages == {"config", "logos"}

ActiveStatus == [kind |-> "Active", msg |-> ""]
BlockedStatus(m) == [kind |-> "Blocked", msg |-> m]
MaintenanceStatus(m) == [kind |-> "Maintenance", msg |-> m]
WaitingStatus(m) == [kind |-> "Waiting", msg |-> m]
\* The status of a unit whose charm has not set one yet.
UnknownStatus == [kind |-> "Unknown", msg |-> ""]
NoStatus == [kind |-> "none", msg |-> ""]

\* Exceptions.  ErrorWithStatus and CheckFailed carry a status; ApiError a code.
NoExc == [type |-> "none", status |-> NoStatus, code |-> 0]
ErrorWithStatus(st) == [type |-> "ErrorWithStatus", status |-> st, code |-> 0]
CheckFailed(st) == [type |-> "CheckFailed", status |-> st, code |-> 0]
GenericCharmRuntimeError(m) ==
    [type |-> "GenericCharmRuntimeError", status |-> [kind |-> "none", msg |-> m], code |-> 0]
ApiError(c) == [type |-> "ApiError", status |-> NoStatus, code |-> c]
ConfigValidationError == [type |-> "ConfigValidationError", status |-> NoStatus, code |-> 0]
ConnectionError == [type |-> "ConnectionError", status |-> NoStatus, code |-> 0]
\* kubernetes.client's exception, raised by the calls of JupyterUIResources.
ApiException(c) == [type |-> "ApiException", status |-> NoStatus, code |-> c]

\* A call the handler issued: op is "apply", "delete", "create", "patch",
\* "add_layer", "replan", "get_check", "push", "get_interfaces", "send_data" or
\* "submit_config"; group is its target (for get_check: what it answered); ok
\* says it returned normally (for get_check: with CheckStatus.UP), code is the
\* ApiError's status code when it did not; manager is the field manager of an
\* apply, "" for the other calls.
\* The data a call carries to a relation; NoData for every other call.
NoData == [prefix |-> "", rewrite |-> "", service |-> "", port |-> ""]
Effect(op, group, force, ok, code) ==
    [op |-> op, group |-> group, force |-> force, ok |-> ok, code |-> code,
     manager |-> "", data |-> NoData]
ApiCall(op, group, force, code) == Effect(op, group, force, code = 0, code)
PebbleCall(op, ok) == Effect(op, "pebble", FALSE, ok, 0)

\* The services of a Pebble plan, as a set of service records; empty before the
\* charm has added its layer.
NoPlan == {}
\* `before` is the cluster as the handler found it; `reconciled` the status
\* _on_event left when the handler went on after it (update-status), else NoStatus.
NoPass ==
    [event |-> "none", calls |-> <<>>, exc |-> NoExc, before |-> {},
     reconciled |-> NoStatus]

(***************************************************************************)
(* KubeflowDashboardSidebar (lib/charms/kubeflow_dashboard/v0): the library *)
(* that writes the sidebar links to the application data of a "sidebar"    *)
(* relation.  A link is the list of its (key, value) items in the order of *)
(* the dict; a value is a string or an integer.                            *)
(***************************************************************************)
JStr(s) == [kind |-> "str", str |-> s, int |-> 0]
JInt(n) == [kind |-> "int", str |-> "", int |-> n]
Item(k, v) == [key |-> k, value |-> v]
\* The link of the module docstring and a second one.
TensorboardsLink ==
    <<Item("position", JInt(3)), Item("type", JStr("item")),
      Item("link", JStr("/tensorboards/")), Item("text", JStr("Tensorboards")),
      Item("icon", JStr("assessment"))>>
NotebooksLink ==
    <<Item("type", JStr("item")), Item("link", JStr("/jupyter/")),
      Item("text", JStr("Notebooks")), Item("icon", JStr("book"))>>

\* json.dumps with its default separators; the strings of the links hold no
\* character json.dumps escapes.
RECURSIVE json_join(_)
json_join(strings) ==
    IF strings = <<>> THEN ""
    ELSE IF Len(strings) = 1 THEN strings[1]
    ELSE strings[1] \o ", " \o json_join(Tail(strings))
json_dumps_value(v) ==
    IF v.kind = "str" THEN "\"" \o v.str \o "\"" ELSE ToString(v.int)
json_dumps_dict(d) ==
    "{" \o json_join([i \in DOMAIN d |->
                         "\"" \o d[i].key \o "\": " \o json_dumps_value(d[i].value)])
        \o "}"
json_dumps(list) ==
    "[" \o json_join([i \in DOMAIN list |-> json_dumps_dict(list[i])]) \o "]"

\* The value of a key that was never written.
Unset == "<unset>"
NoSidebarEvent == [name |-> "none", relation |-> 0, leader |-> FALSE]
\* sidebar.sidebar_link is the constructor's argument, sidebar.data[r] the key
\* "config" of relation.data[charm.app] of the sidebar relation r,
\* sidebar.units[r] the remote units in r, sidebar.event the last sidebar event
\* handled and whether the unit was the leader then.
NoSidebar ==
    [sidebar_link |-> <<>>, data |-> <<>>, units |-> <<>>, event |-> NoSidebarEvent]

(***************************************************************************)
(* The run of a handler: x.status, x.plan and x.cluster are the unit        *)
(* status, the Pebble plan and the cluster so far, x.calls the calls       *)
(* issued so far, x.exc the pending exception (NoExc while the code runs   *)
(* normally).                                                              *)
(***************************************************************************)
Start ==
    [status |-> status, plan |-> plan, cluster |-> cluster, calls |-> <<>>, exc |-> NoExc,
     reconciled |-> NoStatus]
Raise(x, e) == [x EXCEPT !.exc = e]
SetStatus(x, st) == [x EXCEPT !.status = st]
Call(x, c) == [x EXCEPT !.calls = Append(@, c)]
Raised(x) == x.exc # NoExc
\* Below, CHOOSE r \in {e : x \in {run}} : TRUE is e for the value of `run`:
\* x is a local variable of the handler, assigned once.
\* `except <type> as err: unit.status = err.status; return`
CatchStatus(run, type) ==
    (CHOOSE r \in {(IF x.exc.type = type THEN [x EXCEPT !.status = x.exc.status, !.exc = NoExc]
         ELSE x)
            : x \in {run}} : TRUE)
\* The code of the ApiError the last call raised, 0 when it returned.
LastCode(x) == x.calls[Len(x.calls)].code

(***************************************************************************)
(* The resource handlers.  A group is the list of documents one handler    *)
(* renders from its template files: "k8s" from K8S_RESOURCE_FILES (both    *)
(* charms), "crd" from CRD_RESOURCE_FILES (jupyter-controller).            *)
(***************************************************************************)
\* handler.render_manifests(), in the order apply() sends the documents; the
\* names stand for the objects of the templates.
render_manifests(group) ==
    IF group = "k8s" THEN <<"auth-1", "auth-2">> ELSE <<"crd-1">>
Documents(group) == {render_manifests(group)[i] : i \in DOMAIN render_manifests(group)}
\* The index of the document that answers with the error of a failing call.
FailingIndex(group, at) ==
    IF at > Len(render_manifests(group)) THEN Len(render_manifests(group)) ELSE at

\* self._lightkube_field_manager, the same in both charms.
lightkube_field_manager == "lightkube"

\* Faulty variant of the resource handlers: the CRD handler has a manager of its own.
ResourceHandler_OwnManagers(group) ==
    [field_manager |-> IF group = "crd" THEN "lightkube-crd" ELSE lightkube_field_manager,
     template_files |-> group]

\* k8s_resource_handler and crd_resource_handler: KubernetesResourceHandler(
\* field_manager=self._lightkube_field_manager, template_files=...).
ResourceHandler(group) ==
    [field_manager |-> lightkube_field_manager, template_files |-> group]

\* handler.apply(force=force): the documents are applied in order; an ApiError
\* (code # 0) comes from the document at `at` and leaves the earlier ones applied.
handler_apply(x, group, force, code, at) ==
    LET docs == render_manifests(group)
        n == IF code = 0 THEN Len(docs) ELSE FailingIndex(group, at) - 1
        call == [ApiCall("apply", group, force, code)
                    EXCEPT !.manager = ResourceHandler(group).field_manager]
    IN  [Call(x, call) EXCEPT !.cluster = @ \cup {docs[i] : i \in 1 .. n}]

\* delete_many(client, manifests): the objects are deleted in reverse order; the
\* 404 of an object that does not exist (or has just gone: code = NotFound) is
\* skipped, any other ApiError is raised at once.  The call recorded carries
\* the code of the ApiError that left delete_many, 0 when it returned.
delete_many(run, group, code, at) ==
    LET docs == render_manifests(group)
        k == FailingIndex(group, at)
    IN  (CHOOSE r \in {(IF code \notin {0, NotFound} /\ docs[k] \in x.cluster
             THEN [Call(x, ApiCall("delete", group, FALSE, code))
                      EXCEPT !.cluster = @ \ {docs[i] : i \in (k + 1) .. Len(docs)}]
             ELSE [Call(x, ApiCall("delete", group, FALSE, 0))
                      EXCEPT !.cluster = @ \ Documents(group)])
            : x \in {run}} : TRUE)

(***************************************************************************)
(* jupyter-controller                                                      *)
(***************************************************************************)
ControllerModelName == "kubeflow"
\* model.config of jupyter-controller; the values stand for the configured ones.
ControllerConfig ==
    [cluster_domain |-> "cluster.local", cull_idle_time |-> "1440",
     idleness_check_period |-> "1", enable_culling |-> "true"]
\* What the gateway-metadata relation carries when its data is available.
AmbientData == [namespace |-> "istio-system", gateway_name |-> "ambient-gateway"]

BoolStr(b) == IF b THEN "true" ELSE "false"

\* Faulty variant of _check_leader: the wrong status type.
Ctrl_check_leader_WrongStatus(x) ==
    IF ~leader
    THEN Raise(x, ErrorWithStatus(BlockedStatus("Waiting for leadership")))
    ELSE x

Ctrl_check_leader(x) ==
    IF ~leader
    THEN Raise(x, ErrorWithStatus(WaitingStatus("Waiting for leadership")))
    ELSE x

\* Faulty variant of _check_and_report_k8s_conflict: every ApiError is a conflict.
Ctrl_check_and_report_k8s_conflict_AnyError(code) == code # 0

Ctrl_check_and_report_k8s_conflict(code) == code = Conflict

\* Faulty variant of _check_container_connection: the check is skipped.
Ctrl_check_container_connection_Skipped(x) == x

Ctrl_check_container_connection(x) ==
    IF ~canConnect
    THEN Raise(x, ErrorWithStatus(MaintenanceStatus("Pod startup is not complete")))
    ELSE x

\* One of the two blocks of _apply_k8s_resources: handler.apply(), and on an
\* ApiError either handler.apply(force=force_conflicts) or GenericCharmRuntimeError.
\* An ApiError of the forced apply is not caught.
Ctrl_apply_group(x, group, force_conflicts, first, forced, at, forceMsg, failMsg) ==
    LET x1 == handler_apply(x, group, FALSE, first, at)
    IN  IF first = 0 THEN x1
        ELSE IF Ctrl_check_and_report_k8s_conflict(first) /\ force_conflicts
        THEN LET x2 == handler_apply(SetStatus(x1, MaintenanceStatus(forceMsg)),
                                     group, force_conflicts, forced, at)
             IN  IF forced = 0 THEN x2 ELSE Raise(x2, ApiError(forced))
        ELSE Raise(x1, GenericCharmRuntimeError(failMsg))

Ctrl_apply_k8s_resources(x, force_conflicts, in) ==
    LET x1 == SetStatus(x, MaintenanceStatus("Creating K8S resources"))
        x2 == Ctrl_apply_group(x1, "k8s", force_conflicts, in.k8s, in.k8sForced,
                               in.at, "Force applying K8S resources",
                               "K8S resources creation failed")
        x3 == (CHOOSE r \in {IF Raised(y) THEN y
                             ELSE (Ctrl_apply_group(y, "crd", force_conflicts, in.crd, in.crdForced,
                                    in.at, "Force applying CRD resources",
                                    "CRD resources creation failed"))
                : y \in {x2}} : TRUE)
    IN  (CHOOSE r \in {IF Raised(y) THEN y
                       ELSE (SetStatus(y, MaintenanceStatus("K8S resources created")))
            : y \in {x3}} : TRUE)

\* Faulty variant of _get_gateway_info: the defaults are returned whenever no
\* metadata can be read.
Ctrl_get_gateway_info_DefaultsFirst ==
    IF AMBIENT_GATEWAY_RELATION \in relations /\ gatewayMetadata
    THEN [exc |-> NoExc, namespace |-> AmbientData.namespace,
          name |-> AmbientData.gateway_name]
    ELSE [exc |-> NoExc, namespace |-> "kubeflow", name |-> "kubeflow-gateway"]

\* _get_gateway_info: the exception it raises (NoExc when it returns) and the
\* (namespace, name) it returns.
Ctrl_get_gateway_info ==
    LET service_mesh_relation == SERVICE_MESH_RELATION \in relations
        ambient_gateway_relation == AMBIENT_GATEWAY_RELATION \in relations
    IN  IF service_mesh_relation /\ ~ambient_gateway_relation
        THEN [exc |-> ErrorWithStatus(BlockedStatus(
                        "Service mesh relation present without gateway metadata relation")),
              namespace |-> "", name |-> ""]
        ELSE IF ~ambient_gateway_relation
        THEN [exc |-> NoExc, namespace |-> "kubeflow", name |-> "kubeflow-gateway"]
        ELSE IF ~gatewayMetadata
        THEN [exc |-> ErrorWithStatus(WaitingStatus(
                        "Waiting for gateway metadata relation data")),
              namespace |-> "", name |-> ""]
        ELSE [exc |-> NoExc, namespace |-> AmbientData.namespace,
              name |-> AmbientData.gateway_name]

\* Faulty variant of _set_istio_configurations: the sidecar mode is never left.
Ctrl_set_istio_configurations_AlwaysSidecar ==
    LET ambient_relation == SERVICE_MESH_RELATION \in relations
    IN  [use_sidecar |-> TRUE, use_gateway_api |-> ambient_relation]

\* _set_istio_configurations: (_use_sidecar, _use_gateway_api)
Ctrl_set_istio_configurations ==
    LET ambient_relation == SERVICE_MESH_RELATION \in relations
    IN  [use_sidecar |-> ~ambient_relation, use_gateway_api |-> ambient_relation]

Ctrl_service_environment(gw, istio) ==
    [CLUSTER_DOMAIN |-> ControllerConfig.cluster_domain,
     CULL_IDLE_TIME |-> ControllerConfig.cull_idle_time,
     IDLENESS_CHECK_PERIOD |-> ControllerConfig.idleness_check_period,
     USE_ISTIO |-> BoolStr(istio.use_sidecar),
     USE_GATEWAY_API |-> BoolStr(istio.use_gateway_api),
     K8S_GATEWAY_NAME |-> gw.name,
     K8S_GATEWAY_NAMESPACE |-> gw.namespace,
     ISTIO_GATEWAY |-> ControllerModelName \o "/kubeflow-gateway",
     ISTIO_HOST |-> "*",
     ENABLE_CULLING |-> ControllerConfig.enable_culling]

\* The services of _jupyter_controller_layer.
Ctrl_jupyter_controller_layer(gw, istio) ==
    {[name |-> "jupyter-controller", command |-> "./manager",
      environment |-> Ctrl_service_environment(gw, istio)]}

\* update_layer(container_name, container, layer, logger) as _on_event calls it:
\* the layer is added and the plan replanned when its services differ from the
\* plan's; a failed replan is an ErrorWithStatus(Blocked).
Ctrl_update_layer(run, new_services, replanOk) ==
    (CHOOSE r \in {(IF x.plan # new_services
         THEN LET x1 == Call([x EXCEPT !.plan = new_services], PebbleCall("add_layer", TRUE))
                  x2 == Call(x1, PebbleCall("replan", replanOk))
              IN  IF replanOk THEN x2
                  ELSE Raise(x2, ErrorWithStatus(BlockedStatus("Failed to replan")))
         ELSE x)
            : x \in {run}} : TRUE)

\* Faulty variant of the body of _on_event: the layer is updated before the
\* resources are applied.
Ctrl_on_event_body_LayerFirst(x, force_conflicts, in) ==
    LET x1 == Ctrl_check_container_connection(x)
        x2 == (CHOOSE r \in {IF Raised(y) THEN y ELSE (Ctrl_check_leader(y)) : y \in {x1}} : TRUE)
        istio == Ctrl_set_istio_configurations
        gw == Ctrl_get_gateway_info
        x3 == (CHOOSE r \in {IF Raised(y) THEN y
                             ELSE (IF gw.exc # NoExc THEN Raise(y, gw.exc)
                                   ELSE Ctrl_update_layer(
                                            y, Ctrl_jupyter_controller_layer(gw, istio),
                                            in.replan))
                : y \in {x2}} : TRUE)
    IN  (CHOOSE r \in {IF Raised(y) THEN y
                       ELSE (Ctrl_apply_k8s_resources(y, force_conflicts, in))
            : y \in {x3}} : TRUE)

Ctrl_on_event_body(x, force_conflicts, in) ==
    LET x1 == Ctrl_check_container_connection(x)
        x2 == (CHOOSE r \in {IF Raised(y) THEN y ELSE (Ctrl_check_leader(y))
                : y \in {x1}} : TRUE)
        x3 == (CHOOSE r \in {IF Raised(y) THEN y
                             ELSE (Ctrl_apply_k8s_resources(y, force_conflicts, in))
                : y \in {x2}} : TRUE)
        istio == Ctrl_set_istio_configurations
        gw == Ctrl_get_gateway_info
    IN  (CHOOSE r \in {IF Raised(y) THEN y ELSE (IF gw.exc # NoExc THEN Raise(y, gw.exc)
             ELSE Ctrl_update_layer(y, Ctrl_jupyter_controller_layer(gw, istio),
                                    in.replan))
            : y \in {x3}} : TRUE)

\* Faulty variant of _on_event: the ErrorWithStatus is not caught.
Ctrl_on_event_NoCatch(x, force_conflicts, in) ==
    (CHOOSE r \in {IF Raised(y) THEN y ELSE (SetStatus(y, ActiveStatus))
            : y \in {Ctrl_on_event_body(x, force_conflicts, in)}} : TRUE)

\* Faulty variant of _on_event: a Blocked status is kept until somebody clears it.
Ctrl_on_event_Latching(x, force_conflicts, in) ==
    IF x.status.kind = "Blocked" THEN x
    ELSE (CHOOSE r \in {(IF Raised(y) THEN CatchStatus(y, "ErrorWithStatus")
              ELSE SetStatus(y, ActiveStatus))
            : y \in {Ctrl_on_event_body(x, force_conflicts, in)}} : TRUE)

Ctrl_on_event(x, force_conflicts, in) ==
    (CHOOSE r \in {(IF Raised(y) THEN CatchStatus(y, "ErrorWithStatus")
         ELSE SetStatus(y, ActiveStatus))
            : y \in {Ctrl_on_event_body(x, force_conflicts, in)}} : TRUE)

\* _check_status.  container.get_check fails with a ConnectionError when Pebble
\* cannot be reached and with a ModelError when the check cannot be found, as it
\* is while the plan has no layer.
get_check(x, in) ==
    IF ~canConnect THEN "ConnectionError"
    ELSE IF x.plan = NoPlan THEN "ModelError"
    ELSE in.check

\* Faulty variant of _check_status: a check that is not UP is not reported.
Ctrl_check_status_IgnoresDown(x, in) ==
    (CHOOSE r \in {IF Raised(x1) THEN x1 ELSE (LET check == get_check(x1, in)
        x2 == Call(x1, Effect("get_check", check, FALSE, check = "up", 0))
    IN  IF check = "ConnectionError" THEN Raise(x2, ConnectionError)
        ELSE IF check = "ModelError"
        THEN Raise(x2, GenericCharmRuntimeError(
                           "Failed to run health check on workload container"))
        ELSE SetStatus(x2, ActiveStatus))
            : x1 \in {Ctrl_check_leader(x)}} : TRUE)

Ctrl_check_status(x, in) ==
    (CHOOSE r \in {IF Raised(x1) THEN x1 ELSE (LET check == get_check(x1, in)
        x2 == Call(x1, Effect("get_check", check, FALSE, check = "up", 0))
    IN  IF check = "ConnectionError" THEN Raise(x2, ConnectionError)
        ELSE IF check = "ModelError"
        THEN Raise(x2, GenericCharmRuntimeError(
                           "Failed to run health check on workload container"))
        ELSE IF check # "up"
        THEN Raise(x2, ErrorWithStatus(MaintenanceStatus("Workload failed health check")))
        ELSE SetStatus(x2, ActiveStatus))
            : x1 \in {Ctrl_check_leader(x)}} : TRUE)

\* Faulty variant of _on_install: the resources are applied with force_conflicts=True.
Ctrl_on_install_run_Forcing(x, in) == Ctrl_apply_k8s_resources(x, TRUE, in)

\* Faulty variant of _on_install: the whole pass is run.
Ctrl_on_install_run_Reconciling(x, in) == Ctrl_on_event(x, FALSE, in)

Ctrl_on_install_run(x, in) == Ctrl_apply_k8s_resources(x, FALSE, in)

\* Faulty variant of _on_upgrade: force_conflicts is left at its default.
Ctrl_on_upgrade_run_NoForce(x, in) == Ctrl_on_event(x, FALSE, in)

Ctrl_on_upgrade_run(x, in) == Ctrl_on_event(x, TRUE, in)

Ctrl_on_update_status_run(x, in) ==
    LET x1 == (CHOOSE r \in {IF Raised(y) THEN y
                             ELSE (Ctrl_check_status([y EXCEPT !.reconciled = y.status], in))
            : y \in {Ctrl_on_event(x, FALSE, in)}} : TRUE)
    IN  (CHOOSE r \in {(CatchStatus(y, "ErrorWithStatus")) : y \in {x1}} : TRUE)

\* Faulty variant of _on_remove: the first failed deletion is raised at once.
Ctrl_on_remove_run_FailFast(x, in) ==
    LET x1 == SetStatus(x, MaintenanceStatus("Removing K8S resources"))
    IN  (CHOOSE r \in {(IF LastCode(x2) # 0 /\ LastCode(x2) # NotFound
        THEN Raise(x2, ApiError(LastCode(x2)))
        ELSE (CHOOSE r \in {(IF LastCode(x3) # 0 /\ LastCode(x3) # NotFound
             THEN Raise(x3, ApiError(LastCode(x3)))
             ELSE SetStatus(x3, MaintenanceStatus("K8S resources removed")))
                : x3 \in {delete_many(x2, "crd", in.crdDelete, in.at)}} : TRUE))
            : x2 \in {delete_many(x1, "k8s", in.k8sDelete, in.at)}} : TRUE)

\* Faulty variant of _on_remove: every ApiError is dropped, not only the 404.
Ctrl_on_remove_run_DropErrors(x, in) ==
    LET x1 == SetStatus(x, MaintenanceStatus("Removing K8S resources"))
        x2 == delete_many(x1, "k8s", in.k8sDelete, in.at)
        x3 == delete_many(x2, "crd", in.crdDelete, in.at)
    IN  SetStatus(x3, MaintenanceStatus("K8S resources removed"))

\* _on_remove: both groups are deleted; an ApiError other than 404 is kept and
\* raised at the end.
Ctrl_on_remove_run(x, in) ==
    LET x1 == SetStatus(x, MaintenanceStatus("Removing K8S resources"))
    IN  (CHOOSE r \in {((CHOOSE r \in {(LET e2 == IF LastCode(x2) # 0 /\ LastCode(x2) # NotFound
                  THEN ApiError(LastCode(x2)) ELSE NoExc
            e3 == IF LastCode(x3) # 0 /\ LastCode(x3) # NotFound
                  THEN ApiError(LastCode(x3)) ELSE e2
        IN  IF e3 # NoExc THEN Raise(x3, e3)
            ELSE SetStatus(x3, MaintenanceStatus("K8S resources removed")))
                : x3 \in {delete_many(x2, "crd", in.crdDelete, in.at)}} : TRUE))
            : x2 \in {delete_many(x1, "k8s", in.k8sDelete, in.at)}} : TRUE)

(***************************************************************************)
(* jupyter-ui                                                              *)
(***************************************************************************)
VALID_GPU_NUMS == {0, 1, 2, 4, 8}
\* The values of gpu-number-default the environment sets: the one parsed to
\* "none", a valid one and an invalid one.
GpuNumberChoices == {0, 2, 3}
\* model.config of jupyter-ui; the values stand for the configured ones.
UIConfig ==
    [port |-> "5000", url_prefix |-> "/jupyter", secure_cookies |-> "False",
     backend_mode |-> "production", ui |-> "default"]
UIAppName == "jupyter-ui"

\* Faulty variant of parse_gpu_num: every number of GPUs but 0 is taken as it is.
parse_gpu_num_AnyNumber(num_gpu) ==
    IF num_gpu = 0 THEN [exc |-> NoExc, value |-> "none"]
    ELSE [exc |-> NoExc, value |-> ToString(num_gpu)]

\* parse_gpu_num: the exception it raises (NoExc when it returns) and its result.
parse_gpu_num(num_gpu) ==
    IF num_gpu = 0 THEN [exc |-> NoExc, value |-> "none"]
    ELSE IF num_gpu \notin VALID_GPU_NUMS
    THEN [exc |-> ConfigValidationError, value |-> ""]
    ELSE [exc |-> NoExc, value |-> ToString(num_gpu)]

(***************************************************************************)
(* The config of jupyter-ui.  A config value is a text; yaml.safe_load     *)
(* turns it into a YAML value or raises.  A YAML value is a record: kind   *)
(* is "none", "str", "int", "dict" or "list"; str is the text of a string  *)
(* or an integer, pairs the (key, value) pairs of a dict, items the        *)
(* elements of a list.                                                     *)
(***************************************************************************)
YNone == [kind |-> "none", str |-> "", pairs |-> {}, items |-> <<>>]
YStr(s) == [kind |-> "str", str |-> s, pairs |-> {}, items |-> <<>>]
YInt(s) == [kind |-> "int", str |-> s, pairs |-> {}, items |-> <<>>]
YDict(ps) == [kind |-> "dict", str |-> "", pairs |-> ps, items |-> <<>>]
YList(its) == [kind |-> "list", str |-> "", pairs |-> {}, items |-> its]

\* yaml.parser.ParserError and yaml.scanner.ScannerError are both YAMLErrors.
ParserError == [type |-> "ParserError", status |-> NoStatus, code |-> 0]
ScannerError == [type |-> "ScannerError", status |-> NoStatus, code |-> 0]
YAMLError == {ParserError, ScannerError}
TypeError == [type |-> "TypeError", status |-> NoStatus, code |-> 0]
KeyError == [type |-> "KeyError", status |-> NoStatus, code |-> 0]

\* Python's truth value of a YAML value.
Truthy(v) ==
    CASE v.kind = "none" -> FALSE
      [] v.kind = "str" -> v.str # ""
      [] v.kind = "int" -> v.str # "0"
      [] v.kind = "dict" -> v.pairs # {}
      [] v.kind = "list" -> v.items # <<>>

\* The texts a config value is drawn from, by what they are to yaml.safe_load.
NvidiaOption == YDict({<<"limitsKey", "nvidia">>, <<"uiName", "NVIDIA">>})
AmdOption == YDict({<<"limitsKey", "amd">>, <<"uiName", "AMD">>})
AffinityOption ==
    YDict({<<"configKey", "affinity-1">>, <<"displayName", "Affinity 1">>,
           <<"affinity", "{}">>})
TolerationsOption ==
    YDict({<<"groupKey", "group-1">>, <<"displayName", "Group 1">>,
           <<"tolerations", "[]">>})
ConfigTexts ==
    {"", "[]", "[image1, image2]", "A string", "{}", "{ not valid yaml", "a: b: c", "5",
     "[{limitsKey: nvidia, uiName: NVIDIA}, {limitsKey: amd, uiName: AMD}]",
     "[{limitsKey: nvidia}]",
     "[{configKey: affinity-1, displayName: Affinity 1, affinity: {}}]",
     "[{groupKey: group-1, displayName: Group 1, tolerations: []}]"}

\* yaml.safe_load(text): the exception it raises (NoExc when it returns) and
\* the value it returns.
yaml_safe_load(text) ==
    CASE text = "" -> [exc |-> NoExc, value |-> YNone]
      [] text = "[]" -> [exc |-> NoExc, value |-> YList(<<>>)]
      [] text = "[image1, image2]"
           -> [exc |-> NoExc, value |-> YList(<<YStr("image1"), YStr("image2")>>)]
      [] text = "[default-image]"
           -> [exc |-> NoExc, value |-> YList(<<YStr("default-image")>>)]
      [] text = "A string" -> [exc |-> NoExc, value |-> YStr("A string")]
      [] text = "{}" -> [exc |-> NoExc, value |-> YDict({})]
      [] text = "{ not valid yaml" -> [exc |-> ParserError, value |-> YNone]
      [] text = "a: b: c" -> [exc |-> ScannerError, value |-> YNone]
      [] text = "5" -> [exc |-> NoExc, value |-> YInt("5")]
      [] text = "[{limitsKey: nvidia, uiName: NVIDIA}, {limitsKey: amd, uiName: AMD}]"
           -> [exc |-> NoExc, value |-> YList(<<NvidiaOption, AmdOption>>)]
      [] text = "[{limitsKey: nvidia}]"
           -> [exc |-> NoExc, value |-> YList(<<YDict({<<"limitsKey", "nvidia">>})>>)]
      [] text = "[{configKey: affinity-1, displayName: Affinity 1, affinity: {}}]"
           -> [exc |-> NoExc, value |-> YList(<<AffinityOption>>)]
      [] text = "[{groupKey: group-1, displayName: Group 1, tolerations: []}]"
           -> [exc |-> NoExc, value |-> YList(<<TolerationsOption>>)]

JUPYTER_IMAGES_CONFIG == "jupyter-images"
VSCODE_IMAGES_CONFIG == "vscode-images"
RSTUDIO_IMAGES_CONFIG == "rstudio-images"
GPU_NUMBER_CONFIG == "gpu-number-default"
GPU_VENDORS_CONFIG == "gpu-vendors"
AFFINITY_OPTIONS_CONFIG == "affinity-options"
TOLERATIONS_OPTIONS_CONFIG == "tolerations-options"
DEFAULT_PODDEFAULTS_CONFIG == "default-poddefaults"
IMAGE_CONFIGS == {JUPYTER_IMAGES_CONFIG, VSCODE_IMAGES_CONFIG, RSTUDIO_IMAGES_CONFIG}
DEFAULT_WITH_OPTIONS_CONFIGS ==
    {GPU_VENDORS_CONFIG, TOLERATIONS_OPTIONS_CONFIG, AFFINITY_OPTIONS_CONFIG}
\* f"{key}-default"
DefaultKey(key) == key \o "-default"

OPTIONS_LOOKUP ==
    [k \in DEFAULT_WITH_OPTIONS_CONFIGS |->
        CASE k = GPU_VENDORS_CONFIG
               -> [required_keys |-> <<"limitsKey", "uiName">>,
                   option_index_key |-> "limitsKey"]
          [] k = AFFINITY_OPTIONS_CONFIG
               -> [required_keys |-> <<"configKey", "displayName", "affinity">>,
                   option_index_key |-> "configKey"]
          [] k = TOLERATIONS_OPTIONS_CONFIG
               -> [required_keys |-> <<"groupKey", "displayName", "tolerations">>,
                   option_index_key |-> "groupKey"]]

\* The keys of model.config that hold a text, and the config of a unit whose
\* operator has set nothing: the image lists are unset, the options and their
\* defaults are the charm's.
TextConfigKeys ==
    IMAGE_CONFIGS \cup DEFAULT_WITH_OPTIONS_CONFIGS \cup {DEFAULT_PODDEFAULTS_CONFIG}
        \cup {DefaultKey(k) : k \in DEFAULT_WITH_OPTIONS_CONFIGS}
DefaultConfig ==
    [k \in TextConfigKeys |->
        CASE k = GPU_VENDORS_CONFIG
               -> "[{limitsKey: nvidia, uiName: NVIDIA}, {limitsKey: amd, uiName: AMD}]"
          [] k = DefaultKey(GPU_VENDORS_CONFIG) -> "nvidia"
          [] k = AFFINITY_OPTIONS_CONFIG -> "[]"
          [] k = TOLERATIONS_OPTIONS_CONFIG -> "[]"
          [] k = DEFAULT_PODDEFAULTS_CONFIG -> "[image1, image2]"
          [] OTHER -> ""]
\* The text of the file of default images of an image config.
DefaultImagesFile(key) == "[default-image]"

\* OptionsWithDefault(default, options); both fields are YAML values.
OptionsWithDefault(default, options) == [default |-> default, options |-> options]
EmptyOptionsWithDefault == OptionsWithDefault(YStr(""), YList(<<>>))
Returns(v) == [exc |-> NoExc, value |-> v]
Raises(e) == [exc |-> e, value |-> YNone]
NoReturn == [fn |-> "none", args |-> <<>>, exc |-> NoExc, value |-> YNone]

\* dict[key] and `key in dict`
HasKey(option, key) == \E p \in option.pairs : p[1] = key
GetItem(option, key) == (CHOOSE p \in option.pairs : p[1] = key)[2]

\* `for option in options`: the values the loop sees, or a TypeError.  A string
\* yields its characters and a dict its keys, none of them a dict.
Iterate(options) ==
    CASE options.kind = "list" -> Returns(options.items)
      [] options.kind = "str"
           -> Returns([i \in 1 .. (IF options.str = "" THEN 0 ELSE 1) |-> YStr("c")])
      [] options.kind = "dict"
           -> Returns([i \in 1 .. Cardinality(options.pairs) |-> YStr("key")])
      [] OTHER -> Raises(TypeError)

\* validate_options_with_default.  The first loop raises for an option that is
\* not a dict or lacks a required key; then any() looks the options over in
\* order for one whose index key holds the default, and option[option_index_key]
\* raises KeyError for an option without that key.
validate_options_with_default(default, options, option_index_key, required_keys) ==
    LET it == Iterate(options)
        opts == it.value
        bad(i) == \/ opts[i].kind # "dict"
                  \/ \E k \in DOMAIN required_keys : ~HasKey(opts[i], required_keys[k])
        hit(i) == /\ HasKey(opts[i], option_index_key)
                  /\ default.kind = "str"
                  /\ GetItem(opts[i], option_index_key) = default.str
        \* any() stops at the first option it cannot index or that matches
        stop == {i \in DOMAIN opts : ~HasKey(opts[i], option_index_key) \/ hit(i)}
        first == CHOOSE i \in stop : \A j \in stop : i <= j
    IN  IF it.exc # NoExc THEN Raises(it.exc)
        ELSE IF \E i \in DOMAIN opts : bad(i) THEN Raises(ConfigValidationError)
        ELSE IF ~Truthy(default) THEN Returns(TRUE)
        ELSE IF stop = {} THEN Raises(ConfigValidationError)
        ELSE IF hit(first) THEN Returns(TRUE)
        ELSE Raises(KeyError)

validate_named_options_with_default(default, options, name) ==
    validate_options_with_default(default, options,
                                  OPTIONS_LOOKUP[name].option_index_key,
                                  OPTIONS_LOOKUP[name].required_keys)

\* _get_images_config: only a ParserError of yaml.safe_load is caught.
UI_get_images_config(key) ==
    LET loaded == yaml_safe_load(config[key])
        images == IF loaded.value.kind = "none"
                  THEN yaml_safe_load(DefaultImagesFile(key)).value
                  ELSE loaded.value
    IN  IF loaded.exc = ParserError THEN Returns(EmptyOptionsWithDefault)
        ELSE IF loaded.exc # NoExc THEN Raises(loaded.exc)
        ELSE IF images.kind # "list" THEN Returns(EmptyOptionsWithDefault)
        ELSE IF images.items = <<>>
        THEN Returns(OptionsWithDefault(YStr(""), YList(<<>>)))
        ELSE Returns(OptionsWithDefault(images.items[1], images))

\* _get_list_config: every YAMLError is caught.
UI_get_list_config(key) ==
    LET loaded == yaml_safe_load(config[key])
        options == IF loaded.value.kind = "none" THEN YList(<<>>) ELSE loaded.value
    IN  IF loaded.exc \in YAMLError THEN Returns(EmptyOptionsWithDefault)
        ELSE IF options.kind # "list" THEN Returns(EmptyOptionsWithDefault)
        ELSE IF Len(options.items) > 0
        THEN Returns(OptionsWithDefault(options.items[1], options))
        ELSE Returns(OptionsWithDefault(YStr(""), options))

\* _get_options_with_default_from_config: YAMLError and ConfigValidationError
\* are caught, any other exception of the validation is not.
UI_get_options_with_default_from_config(key) ==
    LET default == YStr(config[DefaultKey(key)])
        loaded == yaml_safe_load(config[key])
        options == IF Truthy(loaded.value) THEN loaded.value ELSE YList(<<>>)
        valid == validate_named_options_with_default(default, options, key)
    IN  IF loaded.exc \in YAMLError THEN Returns(EmptyOptionsWithDefault)
        ELSE IF valid.exc = ConfigValidationError THEN Returns(EmptyOptionsWithDefault)
        ELSE IF valid.exc # NoExc THEN Raises(valid.exc)
        ELSE Returns(OptionsWithDefault(default, options))

\* _get_from_config for the keys _update_spawner_ui_config reads; the value of
\* gpu-number-default is the string parse_gpu_num returns.
UI_get_from_config(key) ==
    IF key \in IMAGE_CONFIGS THEN UI_get_images_config(key)
    ELSE IF key \in DEFAULT_WITH_OPTIONS_CONFIGS
    THEN UI_get_options_with_default_from_config(key)
    ELSE IF key = DEFAULT_PODDEFAULTS_CONFIG THEN UI_get_list_config(key)
    ELSE IF parse_gpu_num(gpuNumber).exc # NoExc THEN Raises(parse_gpu_num(gpuNumber).exc)
    ELSE Returns(YStr(parse_gpu_num(gpuNumber).value))

\* The keys in the order _update_spawner_ui_config reads them.
SpawnerConfigKeys ==
    <<JUPYTER_IMAGES_CONFIG, VSCODE_IMAGES_CONFIG, RSTUDIO_IMAGES_CONFIG,
      GPU_NUMBER_CONFIG, GPU_VENDORS_CONFIG, AFFINITY_OPTIONS_CONFIG,
      TOLERATIONS_OPTIONS_CONFIG, DEFAULT_PODDEFAULTS_CONFIG>>
\* The exception of the first _get_from_config that raises, NoExc when none does.
SpawnerConfigError ==
    LET raising == {i \in DOMAIN SpawnerConfigKeys :
                       UI_get_from_config(SpawnerConfigKeys[i]).exc # NoExc}
    IN  IF raising = {} THEN NoExc
        ELSE UI_get_from_config(
                 SpawnerConfigKeys[CHOOSE i \in raising : \A j \in raising : i <= j]).exc

\* __init__ runs on every event: _configure_ambient_ingress submits the route
\* config when the unit is leader.
\* Faulty variant of _configure_ambient_ingress: every unit submits the config.
UI_configure_ambient_ingress_AnyUnit(x) ==
    Call(x, Effect("submit_config", ISTIO_INGRESS_ROUTE_RELATION, FALSE, TRUE, 0))

UI_configure_ambient_ingress(x) ==
    IF leader
    THEN Call(x, Effect("submit_config", ISTIO_INGRESS_ROUTE_RELATION, FALSE, TRUE, 0))
    ELSE x

UI_get_env_vars ==
    [APP_PREFIX |-> UIConfig.url_prefix,
     APP_SECURE_COOKIES |-> UIConfig.secure_cookies,
     BACKEND_MODE |-> UIConfig.backend_mode,
     CLUSTER_DOMAIN |-> "cluster.local",
     UI |-> UIConfig.ui,
     USERID_HEADER |-> "kubeflow-userid",
     USERID_PREFIX |-> ""]

\* The services of _jupyter_ui_layer.
UI_jupyter_ui_layer ==
    {[name |-> "jupyter-ui",
      command |-> "gunicorn -w 3 --bind 0.0.0.0:" \o UIConfig.port
                  \o " --access-logfile - entrypoint:app",
      environment |-> UI_get_env_vars]}

\* Faulty variant of _update_layer: the layer is added and replanned in every pass.
UI_update_layer_Unconditional(run, replanOk) ==
    LET new_layer == UI_jupyter_ui_layer
    IN  (CHOOSE r \in {(LET x1 == SetStatus(x, MaintenanceStatus("Applying new pebble layer"))
                 x2 == Call([x1 EXCEPT !.plan = new_layer], PebbleCall("add_layer", TRUE))
                 x3 == Call(x2, PebbleCall("replan", replanOk))
             IN  IF replanOk THEN x3
                 ELSE Raise(x3, ErrorWithStatus(BlockedStatus("Failed to replan"))))
            : x \in {run}} : TRUE)

UI_update_layer(run, replanOk) ==
    LET new_layer == UI_jupyter_ui_layer
    IN  (CHOOSE r \in {(IF x.plan # new_layer
        THEN LET x1 == SetStatus(x, MaintenanceStatus("Applying new pebble layer"))
                 x2 == Call([x1 EXCEPT !.plan = new_layer], PebbleCall("add_layer", TRUE))
                 x3 == Call(x2, PebbleCall("replan", replanOk))
             IN  IF replanOk THEN x3
                 ELSE Raise(x3, ErrorWithStatus(BlockedStatus("Failed to replan")))
        ELSE x)
            : x \in {run}} : TRUE)

UI_deploy_k8s_resources(x, in) ==
    LET x1 == SetStatus(x, MaintenanceStatus("Creating K8S resources"))
        x2 == handler_apply(x1, "k8s", FALSE, in.k8s, in.at)
    IN  IF in.k8s # 0
        THEN Raise(x2, ErrorWithStatus(BlockedStatus("K8S resources creation failed")))
        ELSE SetStatus(x2, MaintenanceStatus("K8S resources created"))

\* _update_spawner_ui_config: the values are read from the config, the first
\* exception of _get_from_config leaves the method; the rendered file is then
\* pushed.
UI_update_spawner_ui_config(x) ==
    IF SpawnerConfigError # NoExc THEN Raise(x, SpawnerConfigError)
    ELSE Call(x, Effect("push", "spawner_ui_config.yaml", FALSE, TRUE, 0))

\* Faulty variant of _configure_mesh: the prefix is sent as it is configured.
UI_configure_mesh_BarePrefix(x) ==
    IF INGRESS_RELATION \in relations
    THEN Call(x, [Effect("send_data", INGRESS_RELATION, FALSE, TRUE, 0)
                     EXCEPT !.data = [prefix |-> UIConfig.url_prefix, rewrite |-> "/",
                                      service |-> UIAppName, port |-> UIConfig.port]])
    ELSE x

\* _configure_mesh: interfaces["ingress"] is the interface of the relation, None
\* without the relation.
UI_configure_mesh(x) ==
    IF INGRESS_RELATION \in relations
    THEN Call(x, [Effect("send_data", INGRESS_RELATION, FALSE, TRUE, 0)
                     EXCEPT !.data = [prefix |-> UIConfig.url_prefix \o "/", rewrite |-> "/",
                                      service |-> UIAppName, port |-> UIConfig.port]])
    ELSE x

\* Faulty variant of _is_container_ready: the status is left as it was.
UI_is_container_ready_Silent(x) == x

\* _is_container_ready sets the status when the container cannot be reached.
UI_is_container_ready(x) ==
    IF ~canConnect
    THEN SetStatus(x, MaintenanceStatus("Waiting for pod startup to complete"))
    ELSE x

UI_check_leader(x) ==
    IF ~leader THEN Raise(x, CheckFailed(WaitingStatus("Waiting for leadership"))) ELSE x

\* Faulty variant of _get_interfaces: both exceptions become Blocked.
UI_get_interfaces_AlwaysBlocked(x, in) ==
    LET x1 == Call(x, Effect("get_interfaces", INGRESS_RELATION, FALSE,
                             in.interfaces = "ok", 0))
    IN  IF in.interfaces # "ok"
        THEN Raise(x1, CheckFailed(BlockedStatus(in.interfaces)))
        ELSE x1

\* _get_interfaces: in.interfaces is what get_interfaces does.
UI_get_interfaces(x, in) ==
    LET x1 == Call(x, Effect("get_interfaces", INGRESS_RELATION, FALSE,
                             in.interfaces = "ok", 0))
    IN  IF in.interfaces = "NoVersionsListed"
        THEN Raise(x1, CheckFailed(WaitingStatus("NoVersionsListed")))
        ELSE IF in.interfaces = "NoCompatibleVersions"
        THEN Raise(x1, CheckFailed(BlockedStatus("NoCompatibleVersions")))
        ELSE x1

\* Faulty variant of _check_istio_relations: the two relations are not compared.
UI_check_istio_relations_Unchecked(x) == x

UI_check_istio_relations(x) ==
    IF ISTIO_INGRESS_ROUTE_RELATION \in relations /\ INGRESS_RELATION \in relations
    THEN Raise(x, CheckFailed(BlockedStatus(
             "Cannot have both 'istio-ingress-route' and 'ingress' relations at the same time.")))
    ELSE x

UI_check_storage(x) ==
    IF "config" \notin storages
    THEN Raise(x, CheckFailed(WaitingStatus("Waiting for \"config\" storage")))
    ELSE IF "logos" \notin storages
    THEN Raise(x, CheckFailed(WaitingStatus("Waiting for \"logos\" storage")))
    ELSE x

\* The steps of main that run when the container can be reached.
UI_main_ready(x, in) ==
    LET x1 == UI_update_layer(x, in.replan)
        x2 == (CHOOSE r \in {IF Raised(y) THEN y ELSE (UI_update_spawner_ui_config(y))
                : y \in {x1}} : TRUE)
        x3 == (CHOOSE r \in {IF Raised(y) THEN y ELSE (UI_check_istio_relations(y))
                : y \in {x2}} : TRUE)
        x4 == (CHOOSE r \in {IF Raised(y) THEN y ELSE (UI_get_interfaces(y, in))
                : y \in {x3}} : TRUE)
    IN  (CHOOSE r \in {IF Raised(y) THEN y ELSE (UI_configure_mesh(y)) : y \in {x4}} : TRUE)

UI_main_body(x, in) ==
    LET x1 == UI_check_leader(x)
        x2 == (CHOOSE r \in {IF Raised(y) THEN y ELSE (UI_deploy_k8s_resources(y, in))
                : y \in {x1}} : TRUE)
    IN  (CHOOSE r \in {IF Raised(y) THEN y
                       ELSE (IF canConnect THEN UI_main_ready(UI_is_container_ready(y), in)
             ELSE UI_is_container_ready(y))
            : y \in {x2}} : TRUE)

UI_main(x, in) ==
    (CHOOSE r \in {(IF Raised(y) THEN CatchStatus(y, "CheckFailed")
         ELSE SetStatus(y, ActiveStatus))
            : y \in {UI_main_body(x, in)}} : TRUE)

UI_upload_logos_files_to_container(x) ==
    Call(x, Effect("push", "logos", FALSE, TRUE, 0))

UI_on_install_run(x, in) ==
    CatchStatus(UI_deploy_k8s_resources(UI_configure_ambient_ingress(x), in), "CheckFailed")

\* Faulty variant of _on_pebble_ready: the logos are uploaded before the storage
\* is checked.
UI_on_pebble_ready_run_UploadFirst(x, in) ==
    LET x0 == UI_configure_ambient_ingress(x)
        x1 == UI_is_container_ready(x0)
    IN  IF ~canConnect THEN x1
        ELSE (CHOOSE r \in {(IF Raised(x2) THEN CatchStatus(x2, "CheckFailed")
                  ELSE UI_main(x2, in))
                : x2 \in {UI_check_storage(UI_upload_logos_files_to_container(x1))}} : TRUE)

UI_on_pebble_ready_run(x, in) ==
    LET x0 == UI_configure_ambient_ingress(x)
        x1 == UI_is_container_ready(x0)
    IN  IF ~canConnect THEN x1
        ELSE (CHOOSE r \in {(IF Raised(x2) THEN CatchStatus(x2, "CheckFailed")
                  ELSE UI_main(UI_upload_logos_files_to_container(x2), in))
                : x2 \in {UI_check_storage(x1)}} : TRUE)

UI_main_run(x, in) == UI_main(UI_configure_ambient_ingress(x), in)

UI_on_remove_run(x, in) ==
    LET x0 == UI_configure_ambient_ingress(x)
        x1 == SetStatus(x0, MaintenanceStatus("Removing K8S resources"))
    IN  (CHOOSE r \in {(IF LastCode(x2) # 0 THEN Raise(x2, ApiError(LastCode(x2)))
             ELSE SetStatus(x2, MaintenanceStatus("K8S resources removed")))
            : x2 \in {delete_many(x1, "k8s", in.k8sDelete, in.at)}} : TRUE)

(***************************************************************************)
(* JupyterUIResources (charms/jupyter-ui/src/resources.py): the cluster    *)
(* roles and the services it creates and deletes with the kubernetes       *)
(* client, one call per object.                                            *)
(***************************************************************************)
\* _clusterroles followed by _services, the order of apply and of delete.
UIResourceObjects == <<"ClusterRole/jupyter-jupyter-ui", "Service/jupyter-ui">>
UIResourceSet == {UIResourceObjects[i] : i \in DOMAIN UIResourceObjects}

\* apply, from object i on: the object is looked up, created when the list is
\* empty and patched otherwise; an error of the call at `at` leaves apply.
RECURSIVE JupyterUIResources_apply_from(_, _, _)
JupyterUIResources_apply_from(x, i, in) ==
    IF i > Len(UIResourceObjects) THEN x
    ELSE LET obj == UIResourceObjects[i]
             op == IF obj \notin x.cluster THEN "create" ELSE "patch"
             code == IF in.at = i THEN in.code ELSE 0
             x1 == Call(x, ApiCall(op, obj, FALSE, code))
         IN  IF code # 0 THEN Raise(x1, ApiException(code))
             ELSE JupyterUIResources_apply_from(
                      [x1 EXCEPT !.cluster = @ \cup {obj}], i + 1, in)

\* Faulty variant of apply: the objects are created without being looked up.
JupyterUIResources_apply_run_CreateOnly(x, in) ==
    LET code1 == IF in.at = 1 THEN in.code ELSE 0
        code2 == IF in.at = 2 THEN in.code ELSE 0
        x1 == Call(x, ApiCall("create", UIResourceObjects[1], FALSE, code1))
        x2 == Call([x1 EXCEPT !.cluster = @ \cup {UIResourceObjects[1]}],
                   ApiCall("create", UIResourceObjects[2], FALSE, code2))
    IN  IF code1 # 0 THEN Raise(x1, ApiException(code1))
        ELSE IF code2 # 0 THEN Raise(x2, ApiException(code2))
        ELSE [x2 EXCEPT !.cluster = @ \cup {UIResourceObjects[2]}]

JupyterUIResources_apply_run(x, in) == JupyterUIResources_apply_from(x, 1, in)

\* delete, from object i on: delete_cluster_role / delete_namespaced_service
\* answer 404 for an object that does not exist; no call is guarded.
RECURSIVE JupyterUIResources_delete_from(_, _, _)
JupyterUIResources_delete_from(x, i, in) ==
    IF i > Len(UIResourceObjects) THEN x
    ELSE LET obj == UIResourceObjects[i]
             code == IF obj \notin x.cluster THEN NotFound
                     ELSE IF in.at = i THEN in.code ELSE 0
             x1 == Call(x, ApiCall("delete", obj, FALSE, code))
         IN  IF code # 0 THEN Raise(x1, ApiException(code))
             ELSE JupyterUIResources_delete_from(
                      [x1 EXCEPT !.cluster = @ \ {obj}], i + 1, in)

JupyterUIResources_delete_run(x, in) == JupyterUIResources_delete_from(x, 1, in)

(***************************************************************************)
(* Events                                                                  *)
(***************************************************************************)
\* The outcomes of the calls of one handler run.  A forced apply is only drawn
\* where the handler can force; the health check only where it is consulted.
\* The outcomes of the calls a run does not issue are not drawn: they stay at
\* the values of DefaultInput.  `at` is the document of the auth/K8s group an
\* ApiError comes from; it is drawn only when the apply or the deletion of
\* that group fails.
DefaultInput ==
    [k8s |-> 0, k8sForced |-> 0, crd |-> 0, crdForced |-> 0, replan |-> TRUE,
     check |-> "up", interfaces |-> "ok", k8sDelete |-> 0, crdDelete |-> 0, at |-> 1]
InputSpace(k8s, forced, crd, replans, checks, interfaces, k8sDeletes, crdDeletes) ==
    [k8s : k8s, k8sForced : forced, crd : crd, crdForced : forced, replan : replans,
     check : checks, interfaces : interfaces, k8sDelete : k8sDeletes,
     crdDelete : crdDeletes, at : DOMAIN render_manifests("k8s")]
\* The apply of a group went through, at once or by the forced apply.
Applied(first, forced, forcing) ==
    first = 0 \/ (forcing /\ first = Conflict /\ forced = 0)

\* jupyter-controller: `reached` says that the run gets to _apply_k8s_resources.
CtrlInputs(forced, checks, reached) ==
    LET forcing == forced # {0}
        gw == Ctrl_get_gateway_info
        replanned == /\ gw.exc = NoExc
                     /\ plan # Ctrl_jupyter_controller_layer(gw, Ctrl_set_istio_configurations)
    IN  IF ~reached THEN {DefaultInput}
        ELSE {in \in InputSpace(ApplyOutcomes, forced, ApplyOutcomes, BOOLEAN, checks,
                                {"ok"}, {0}, {0}) :
                 /\ in.k8sForced # 0 => in.k8s = Conflict
                 /\ in.crdForced # 0 => in.crd = Conflict
                 /\ ~Applied(in.k8s, in.k8sForced, forcing)
                       => (in.crd = 0 /\ in.crdForced = 0)
                 /\ in.at # 1 => ~Applied(in.k8s, in.k8sForced, forcing)
                 /\ ~in.replan => /\ Applied(in.k8s, in.k8sForced, forcing)
                                   /\ Applied(in.crd, in.crdForced, forcing)
                                   /\ replanned}
\* jupyter-ui: `reached` says that the run gets to _deploy_k8s_resources,
\* `ready` that it goes on to the steps of a reachable container.
UIInputs(replans, interfaces, reached, ready) ==
    IF ~reached THEN {DefaultInput}
    ELSE {in \in InputSpace(ApplyOutcomes, {0}, {0}, replans, {"up"}, interfaces,
                            {0}, {0}) :
             /\ in.at # 1 => in.k8s # 0
             /\ ~in.replan => (in.k8s = 0 /\ ready /\ plan # UI_jupyter_ui_layer)
             /\ in.interfaces # "ok"
                   => /\ in.k8s = 0 /\ ready /\ in.replan
                      /\ SpawnerConfigError = NoExc
                      /\ ~(UIRelations \subseteq relations)}
DeleteInputs(crdDeletes) ==
    {in \in InputSpace({0}, {0}, {0}, {TRUE}, {"up"}, {"ok"}, DeleteOutcomes, crdDeletes) :
        in.at # 1 => in.k8sDelete \notin {0, NotFound}}
CheckOutcomes == {"up", "down", "ModelError"}
\* get_interfaces can only fail on a relation that exists.
InterfaceOutcomes ==
    IF INGRESS_RELATION \in relations
    THEN {"ok", "NoVersionsListed", "NoCompatibleVersions"}
    ELSE {"ok"}

\* The handler returned (or raised): the unit keeps the status and the plan the
\* run left, and `pass` records the run.
Finish(event, run) ==
    \E x \in {run} :
    /\ status' = x.status
    /\ plan' = x.plan
    /\ cluster' = x.cluster
    /\ pass' = [event |-> event, calls |-> x.calls, exc |-> x.exc, before |-> cluster,
                reconciled |-> x.reconciled]
    /\ returned' = NoReturn
    /\ UNCHANGED <<env, sidebar>>

Ctrl_on_install ==
    /\ charm = "controller" /\ phase = "new"
    /\ phase' = "installed"
    /\ \E in \in CtrlInputs({0}, {"up"}, TRUE) :
          Finish("install", Ctrl_on_install_run(Start, in))

Ctrl_on_event_handler ==
    /\ charm = "controller" /\ phase = "installed"
    /\ UNCHANGED phase
    /\ \E event \in {"config-changed", "relation-changed", "pebble-ready"} :
       \E in \in CtrlInputs({0}, {"up"}, canConnect /\ leader) :
          Finish(event, Ctrl_on_event(Start, FALSE, in))

Ctrl_on_upgrade ==
    /\ charm = "controller" /\ phase = "installed"
    /\ UNCHANGED phase
    /\ \E in \in CtrlInputs(ForcedApplyOutcomes, {"up"}, canConnect /\ leader) :
          Finish("upgrade", Ctrl_on_upgrade_run(Start, in))

Ctrl_on_update_status ==
    /\ charm = "controller" /\ phase = "installed"
    /\ UNCHANGED phase
    /\ \E in \in CtrlInputs({0}, CheckOutcomes, canConnect /\ leader) :
          Finish("update-status", Ctrl_on_update_status_run(Start, in))

Ctrl_on_remove ==
    /\ charm = "controller" /\ phase = "installed"
    /\ phase' = "removed"
    /\ \E in \in DeleteInputs(DeleteOutcomes) :
          Finish("remove", Ctrl_on_remove_run(Start, in))

UI_on_install ==
    /\ charm = "ui" /\ phase = "new"
    /\ phase' = "installed"
    /\ \E in \in UIInputs({TRUE}, {"ok"}, TRUE, FALSE) :
          Finish("install", UI_on_install_run(Start, in))

UI_main_handler ==
    /\ charm = "ui" /\ phase = "installed"
    /\ UNCHANGED phase
    /\ \E event \in {"leader-elected", "upgrade", "config-changed", "relation-changed"} :
       \E in \in UIInputs(BOOLEAN, InterfaceOutcomes, leader, canConnect) :
          Finish(event, UI_main_run(Start, in))

UI_on_pebble_ready ==
    /\ charm = "ui" /\ phase = "installed"
    /\ UNCHANGED phase
    /\ \E in \in UIInputs(BOOLEAN, InterfaceOutcomes,
                           leader /\ canConnect /\ storages = UIStorages, canConnect) :
          Finish("pebble-ready", UI_on_pebble_ready_run(Start, in))

UI_on_remove ==
    /\ charm = "ui" /\ phase = "installed"
    /\ phase' = "removed"
    /\ \E in \in DeleteInputs({0}) :
          Finish("remove", UI_on_remove_run(Start, in))

(***************************************************************************)
(* The environment: one fact of the Juju model changes.  No handler has    *)
(* run on the new facts yet, so `pass` is reset.                           *)
(***************************************************************************)
EnvStep ==
    /\ phase # "removed"
    /\ pass' = NoPass
    /\ UNCHANGED <<charm, status, plan, cluster, phase, returned, sidebar>>

LeaderChange ==
    /\ EnvStep
    /\ leader' = ~leader
    /\ UNCHANGED <<canConnect, relations, gatewayMetadata, storages, gpuNumber, config>>

ContainerChange ==
    /\ EnvStep
    /\ canConnect' = ~canConnect
    /\ UNCHANGED <<leader, relations, gatewayMetadata, storages, gpuNumber, config>>

RelationCreated ==
    /\ EnvStep
    /\ \E r \in (IF charm = "controller" THEN ControllerRelations ELSE UIRelations)
                  \ relations :
          relations' = relations \cup {r}
    /\ UNCHANGED <<leader, canConnect, gatewayMetadata, storages, gpuNumber, config>>

\* The data of a broken gateway-metadata relation goes with it.
RelationBroken ==
    /\ EnvStep
    /\ \E r \in relations :
          /\ relations' = relations \ {r}
          /\ gatewayMetadata' = (gatewayMetadata /\ r # AMBIENT_GATEWAY_RELATION)
    /\ UNCHANGED <<leader, canConnect, storages, gpuNumber, config>>

GatewayMetadataChange ==
    /\ EnvStep
    /\ AMBIENT_GATEWAY_RELATION \in relations
    /\ gatewayMetadata' = ~gatewayMetadata
    /\ UNCHANGED <<leader, canConnect, relations, storages, gpuNumber, config>>

StorageChange ==
    /\ EnvStep
    /\ charm = "ui"
    /\ \E st \in UIStorages :
          storages' = IF st \in storages THEN storages \ {st} ELSE storages \cup {st}
    /\ UNCHANGED <<leader, canConnect, relations, gatewayMetadata, gpuNumber, config>>

ConfigChange ==
    /\ EnvStep
    /\ charm = "ui"
    /\ \E n \in GpuNumberChoices \ {gpuNumber} : gpuNumber' = n
    /\ UNCHANGED <<leader, canConnect, relations, gatewayMetadata, storages, config>>

\* Somebody else deletes an object of the cluster.
ObjectDeleted ==
    /\ phase # "removed"
    /\ pass' = NoPass
    /\ \E obj \in cluster : cluster' = cluster \ {obj}
    /\ UNCHANGED <<env, status, plan, phase, returned, sidebar>>

\* The outcomes of the calls of JupyterUIResources: the call at `at` answers
\* with `code`.
ResourcesInputs ==
    {in \in [code : {0, 500}, at : DOMAIN UIResourceObjects] : in.code = 0 => in.at = 1}

\* JupyterUIResources(charm).apply() and .delete(), called on the unit.
JupyterUIResources_apply ==
    /\ charm = "ui" /\ phase = "installed"
    /\ UNCHANGED phase
    /\ \E in \in ResourcesInputs :
          Finish("resources-apply", JupyterUIResources_apply_run(Start, in))

JupyterUIResources_delete ==
    /\ charm = "ui" /\ phase = "installed"
    /\ UNCHANGED phase
    /\ \E in \in ResourcesInputs :
          Finish("resources-delete", JupyterUIResources_delete_run(Start, in))

Init ==
    /\ charm \in {"controller", "ui"}
    /\ leader \in BOOLEAN
    /\ canConnect = FALSE
    /\ relations = {}
    /\ gatewayMetadata = FALSE
    /\ storages = {}
    /\ gpuNumber = 0
    /\ config = DefaultConfig
    /\ status = UnknownStatus
    /\ plan = NoPlan
    /\ cluster = {}
    /\ phase = "new"
    /\ pass = NoPass
    /\ returned = NoReturn
    /\ sidebar = NoSidebar

Next ==
    \/ Ctrl_on_install
    \/ Ctrl_on_event_handler
    \/ Ctrl_on_upgrade
    \/ Ctrl_on_update_status
    \/ Ctrl_on_remove
    \/ UI_on_install
    \/ UI_main_handler
    \/ UI_on_pebble_ready
    \/ UI_on_remove
    \/ LeaderChange
    \/ ContainerChange
    \/ RelationCreated
    \/ RelationBroken
    \/ GatewayMetadataChange
    \/ StorageChange
    \/ ConfigChange

Spec == Init /\ [][Next]_vars

(***************************************************************************)
(* The removal of the cluster objects.  The unit has been installed, its   *)
(* resource groups applied; from there objects are deleted by others, the  *)
(* remove handler runs, and JupyterUIResources is applied and deleted.     *)
(***************************************************************************)
RenderedDocuments ==
    IF charm = "controller" THEN Documents("k8s") \cup Documents("crd")
    ELSE Documents("k8s")

InitResources ==
    /\ charm \in {"controller", "ui"}
    /\ leader \in BOOLEAN
    /\ canConnect = FALSE
    /\ relations = {}
    /\ gatewayMetadata = FALSE
    /\ storages = {}
    /\ gpuNumber = 0
    /\ config = DefaultConfig
    /\ status = MaintenanceStatus("K8S resources created")
    /\ plan = NoPlan
    /\ cluster = RenderedDocuments
    /\ phase = "installed"
    /\ pass = NoPass
    /\ returned = NoReturn
    /\ sidebar = NoSidebar

NextResources ==
    \/ ObjectDeleted
    \/ Ctrl_on_remove
    \/ UI_on_remove
    \/ JupyterUIResources_apply
    \/ JupyterUIResources_delete

SpecResources == InitResources /\ [][NextResources]_vars

(***************************************************************************)
(* The config functions of jupyter-ui.  The operator has set one of the    *)
(* texts of the config, or gpu-number-default; the unit is installed and   *)
(* ready.  From there the functions are called, as the unit tests call     *)
(* them on a charm that has handled no event, and main runs.               *)
(***************************************************************************)
GpuNumbers == -1 .. 9
DefaultTexts == {"", "nvidia", "not-in-list"}
ConfigChoices ==
    {[DefaultConfig EXCEPT ![k] = t, ![DefaultKey(GPU_VENDORS_CONFIG)] = d] :
        k \in IMAGE_CONFIGS \cup DEFAULT_WITH_OPTIONS_CONFIGS \cup {DEFAULT_PODDEFAULTS_CONFIG},
        t \in ConfigTexts, d \in DefaultTexts}

\* The arguments validate_options_with_default is called with.
ValidatorOptions ==
    {YDict({<<"limitsKey", "1">>, <<"uiName", "a">>}),
     YDict({<<"limitsKey", "2">>, <<"uiName", "b">>}),
     YDict({<<"uiName", "b">>}), YDict({<<"limitsKey", "1">>}), YStr("1")}
ValidatorOptionLists ==
    {<<>>} \cup {<<a>> : a \in ValidatorOptions}
        \cup {<<a, b>> : a \in ValidatorOptions, b \in ValidatorOptions}
ValidatorDefaults == {YNone, YStr(""), YStr("1"), YStr("b"), YStr("not-in-list")}
ValidatorIndexKeys == {"limitsKey", "uiName"}
ValidatorRequiredKeys == {<<"limitsKey", "uiName">>, <<"uiName">>}

\* harness.charm._get_from_config(key)
GetFromConfig ==
    /\ pass = NoPass
    /\ \E key \in {SpawnerConfigKeys[i] : i \in DOMAIN SpawnerConfigKeys} :
          returned' = [fn |-> "_get_from_config", args |-> <<key>>,
                       exc |-> UI_get_from_config(key).exc,
                       value |-> UI_get_from_config(key).value]
    /\ UNCHANGED <<env, status, plan, cluster, phase, pass, sidebar>>

\* parse_gpu_num(config["gpu-number-default"])
ParseGpuNum ==
    /\ pass = NoPass
    /\ returned' = [fn |-> "parse_gpu_num", args |-> <<gpuNumber>>,
                    exc |-> parse_gpu_num(gpuNumber).exc,
                    value |-> parse_gpu_num(gpuNumber).value]
    /\ UNCHANGED <<env, status, plan, cluster, phase, pass, sidebar>>

\* validate_options_with_default(default, options, option_index_key, required_keys);
\* it reads no config, and is called under the default one.
ValidateOptions ==
    /\ pass = NoPass /\ config = DefaultConfig /\ gpuNumber = 0
    /\ \E default \in ValidatorDefaults, options \in ValidatorOptionLists,
          option_index_key \in ValidatorIndexKeys, required_keys \in ValidatorRequiredKeys :
          returned' =
              [fn |-> "validate_options_with_default",
               args |-> <<default, options, option_index_key, required_keys>>,
               exc |-> validate_options_with_default(
                           default, YList(options), option_index_key, required_keys).exc,
               value |-> validate_options_with_default(
                             default, YList(options), option_index_key, required_keys).value]
    /\ UNCHANGED <<env, status, plan, cluster, phase, pass, sidebar>>

InitConfig ==
    /\ charm = "ui"
    /\ leader = TRUE
    /\ canConnect = TRUE
    /\ relations = {}
    /\ gatewayMetadata = FALSE
    /\ storages = UIStorages
    /\ \/ gpuNumber \in GpuNumbers /\ config = DefaultConfig
       \/ gpuNumber = 0 /\ config \in ConfigChoices
    /\ status = MaintenanceStatus("K8S resources created")
    /\ plan = NoPlan
    /\ cluster = Documents("k8s")
    /\ phase = "installed"
    /\ pass = NoPass
    /\ returned = NoReturn
    /\ sidebar = NoSidebar

NextConfig ==
    \/ GetFromConfig
    \/ ParseGpuNum
    \/ ValidateOptions
    \/ UI_main_handler

SpecConfig == InitConfig /\ [][NextConfig]_vars

(***************************************************************************)
(* The sidebar relations.  A unit of jupyter-ui whose charm holds a        *)
(* KubeflowDashboardSidebar handles the joined and departed events of its  *)
(* sidebar relations, between the passes of main and changes of leader.    *)
(***************************************************************************)
SidebarRelations == {1, 2}
MaxSidebarUnits == 2
SidebarLinkChoices == {<<>>, <<TensorboardsLink>>, <<TensorboardsLink, NotebooksLink>>}

Sidebar_on_sidebar_relation_joined(sb, relation) ==
    IF ~leader THEN sb
    ELSE [sb EXCEPT !.data[relation] = json_dumps(sb.sidebar_link)]

\* Faulty variant of _on_sidebar_relation_departed: the key is left as it is.
Sidebar_on_sidebar_relation_departed_Keeps(sb, relation) == sb

Sidebar_on_sidebar_relation_departed(sb, relation) ==
    IF ~leader THEN sb
    ELSE [sb EXCEPT !.data[relation] = json_dumps(<<>>)]

SidebarEvent(name, relation) == [name |-> name, relation |-> relation, leader |-> leader]

\* A remote unit joins the sidebar relation r.
SidebarRelationJoined ==
    /\ charm = "ui" /\ phase = "installed"
    /\ \E r \in SidebarRelations :
          /\ sidebar.units[r] < MaxSidebarUnits
          /\ sidebar' = [Sidebar_on_sidebar_relation_joined(sidebar, r)
                            EXCEPT !.units[r] = @ + 1,
                                   !.event = SidebarEvent("relation-joined", r)]
    /\ pass' = NoPass
    /\ UNCHANGED <<env, status, plan, cluster, phase, returned>>

\* A remote unit leaves the sidebar relation r.
SidebarRelationDeparted ==
    /\ charm = "ui" /\ phase = "installed"
    /\ \E r \in SidebarRelations :
          /\ sidebar.units[r] > 0
          /\ sidebar' = [Sidebar_on_sidebar_relation_departed(sidebar, r)
                            EXCEPT !.units[r] = @ - 1,
                                   !.event = SidebarEvent("relation-departed", r)]
    /\ pass' = NoPass
    /\ UNCHANGED <<env, status, plan, cluster, phase, returned>>

InitSidebar ==
    /\ charm = "ui"
    /\ leader \in BOOLEAN
    /\ canConnect = TRUE
    /\ relations = {INGRESS_RELATION}
    /\ gatewayMetadata = FALSE
    /\ storages = UIStorages
    /\ gpuNumber = 0
    /\ config = DefaultConfig
    /\ status = MaintenanceStatus("K8S resources created")
    /\ plan = NoPlan
    /\ cluster = Documents("k8s")
    /\ phase = "installed"
    /\ pass = NoPass
    /\ returned = NoReturn
    /\ \E links \in SidebarLinkChoices :
          sidebar = [sidebar_link |-> links,
                     data |-> [r \in SidebarRelations |-> Unset],
                     units |-> [r \in SidebarRelations |-> 0],
                     event |-> NoSidebarEvent]

NextSidebar ==
    \/ SidebarRelationJoined
    \/ SidebarRelationDeparted
    \/ LeaderChange
    \/ UI_main_handler

SpecSidebar == InitSidebar /\ [][NextSidebar]_vars

(***************************************************************************)
(* Properties                                                              *)
(***************************************************************************)
InPass == pass.event # "none"
CallIdx == 1 .. Len(pass.calls)
NoApply == \A i \in CallIdx : pass.calls[i].op # "apply"
NoDelete == \A i \in CallIdx : pass.calls[i].op # "delete"
LayerUpdated == \E i \in CallIdx : pass.calls[i].op = "add_layer"
AppliesSucceeded ==
    \A i \in CallIdx : pass.calls[i].op = "apply" => pass.calls[i].ok
ReconcileEvents ==
    {"config-changed", "relation-changed", "pebble-ready", "upgrade", "update-status"}
WaitingForLeadership == WaitingStatus("Waiting for leadership")

\* C1: in both charms, a pass of any lifecycle event handled by a unit that is
\* not the leader issues no resource apply and no resource delete.
C1_LeadershipGateOnEffects ==
    (InPass /\ ~leader) => (NoApply /\ NoDelete)

\* C2 as claimed: in both charms, a reconcile-triggering event handled by a
\* non-leader unit ends with Waiting("Waiting for leadership"), whether or not
\* the workload container can be reached.
C2_LeadershipFirstGate ==
    (InPass /\ pass.event \in ReconcileEvents /\ ~leader)
        => status = WaitingForLeadership

\* C2 as amended: a reconcile-triggering event handled by a non-leader unit
\* returns normally and ends with Waiting("Waiting for leadership") when the
\* container can be reached (for the pebble-ready of jupyter-ui: and both
\* storages exist), and also when it cannot in the update-status of
\* jupyter-controller and in the events jupyter-ui handles with main; in the
\* other passes of jupyter-controller and in the pebble-ready of jupyter-ui an
\* unreachable container is found first and the status is Maintenance.
C2_LeadershipGateAmended ==
    (InPass /\ pass.event \in ReconcileEvents /\ ~leader) =>
        /\ pass.exc = NoExc
        /\ charm = "controller" =>
              IF canConnect \/ pass.event = "update-status"
              THEN status = WaitingForLeadership
              ELSE status = MaintenanceStatus("Pod startup is not complete")
        /\ charm = "ui" =>
              IF pass.event # "pebble-ready" \/ (canConnect /\ storages = UIStorages)
              THEN status = WaitingForLeadership
              ELSE IF ~canConnect
              THEN status = MaintenanceStatus("Waiting for pod startup to complete")
              ELSE status.kind = "Waiting" /\ status # WaitingForLeadership

\* C2 witness: a non-leader jupyter-controller with a reachable container has
\* handled pebble-ready and waits for leadership.
C2_Witness ==
    /\ charm = "controller" /\ pass.event = "pebble-ready"
    /\ ~leader /\ canConnect
    /\ status = WaitingForLeadership

\* C3 as claimed: in neither charm is a resource apply issued during a pass in
\* which the workload container cannot be connected to.
C3_ConnectivityGatePrecedesMutation ==
    (InPass /\ ~canConnect) => NoApply

\* C3 as amended: no resource apply is issued while the container cannot be
\* connected to in the passes of jupyter-controller that run _on_event
\* (config-changed, relation-changed, pebble-ready, upgrade, update-status) and
\* in the pebble-ready handler of jupyter-ui; the install handlers do not
\* consult the container, and main of jupyter-ui applies before it checks it.
C3_ConnectivityGateAmended ==
    (/\ InPass /\ ~canConnect
     /\ \/ charm = "controller" /\ pass.event \in ReconcileEvents
        \/ charm = "ui" /\ pass.event = "pebble-ready")
        => NoApply

\* C3 witness: a leader jupyter-controller has handled config-changed with an
\* unreachable container, issued no call and is in Maintenance.
C3_Witness ==
    /\ charm = "controller" /\ pass.event = "config-changed"
    /\ leader /\ ~canConnect
    /\ pass.calls = <<>>
    /\ status = MaintenanceStatus("Pod startup is not complete")

\* C4: in both charms, a reconcile-triggering event handled by a leader while
\* the container cannot be connected to leaves the unit in Maintenance, never in
\* Active, and does not update the Pebble layer.
C4_UnreachableContainerStops ==
    (InPass /\ pass.event \in ReconcileEvents /\ leader /\ ~canConnect)
        => (status.kind = "Maintenance" /\ ~LayerUpdated)

\* C5: a forced apply is issued only in a pass of the upgrade event.
C5_ForceOnlyOnUpgrade ==
    \A i \in CallIdx :
        (pass.calls[i].op = "apply" /\ pass.calls[i].force) => pass.event = "upgrade"

\* C5 witness: an upgrade pass has issued a forced apply after a 409.
C5_Witness ==
    /\ pass.event = "upgrade"
    /\ \E i \in CallIdx :
          /\ i > 1
          /\ pass.calls[i].op = "apply" /\ pass.calls[i].force
          /\ pass.calls[i - 1].code = Conflict

\* A non-forced apply that came back with a 409.
IsConflict(c) == c.op = "apply" /\ ~c.force /\ c.code = Conflict
\* Nothing but the 409s went wrong in the pass: every other call returned
\* normally and the configuration the pass reads can be resolved.
RestOfPassSucceeds ==
    /\ \A i \in CallIdx : IsConflict(pass.calls[i]) \/ pass.calls[i].ok
    /\ charm = "controller" => Ctrl_get_gateway_info.exc = NoExc
    /\ charm = "ui" => /\ parse_gpu_num(gpuNumber).exc = NoExc
                       /\ ~(UIRelations \subseteq relations)
\* Each 409 of the pass is followed at once by a forced apply of the same group.
ConflictsForced ==
    \A i \in CallIdx :
        IsConflict(pass.calls[i]) =>
            /\ i < Len(pass.calls)
            /\ pass.calls[i + 1].op = "apply"
            /\ pass.calls[i + 1].force
            /\ pass.calls[i + 1].group = pass.calls[i].group
HasConflict == \E i \in CallIdx : IsConflict(pass.calls[i])

\* C6 as claimed: in both charms, when the apply of an upgrade pass of a leader
\* with a reachable container hits a 409, the charm applies again with
\* force=true, and when nothing else fails the pass ends Active.
C6_UpgradeForcesOnConflict ==
    (InPass /\ pass.event = "upgrade" /\ leader /\ canConnect /\ HasConflict)
        => /\ ConflictsForced
           /\ RestOfPassSucceeds => status = ActiveStatus

\* C6 as amended: the claim holds for jupyter-controller.  jupyter-ui never
\* forces: a 409 in its upgrade pass is followed by no other apply and leaves
\* main as an ErrorWithStatus, the unit not Active.
C6_UpgradeForcesAmended ==
    (InPass /\ pass.event = "upgrade" /\ leader /\ canConnect /\ HasConflict)
        => /\ charm = "controller" =>
                 /\ ConflictsForced
                 /\ RestOfPassSucceeds => (status = ActiveStatus /\ pass.exc = NoExc)
           /\ charm = "ui" =>
                 /\ \A i \in CallIdx : ~pass.calls[i].force
                 /\ IsConflict(pass.calls[Len(pass.calls)])
                 /\ pass.exc.type = "ErrorWithStatus"
                 /\ status.kind # "Active"

\* C6 witness: an upgrade pass of jupyter-controller forced both groups after a
\* 409 each and ended Active.
C6_Witness ==
    /\ charm = "controller" /\ pass.event = "upgrade"
    /\ Len(pass.calls) >= 4
    /\ IsConflict(pass.calls[1]) /\ pass.calls[2].force /\ pass.calls[2].ok
    /\ IsConflict(pass.calls[3]) /\ pass.calls[4].force /\ pass.calls[4].ok
    /\ status = ActiveStatus

\* C7: in both charms, when the apply of a pass of an event other than upgrade
\* comes back with a 409, the handler returns with the unit Blocked, without
\* having updated the Pebble layer.
C7_ConflictBlocks ==
    (InPass /\ pass.event # "upgrade" /\ HasConflict)
        => (status.kind = "Blocked" /\ pass.exc = NoExc /\ ~LayerUpdated)

\* C8: in both charms and for every event, install included, when an apply
\* fails with an error other than a 409 the handler returns with the unit
\* Blocked.
C8_ApplyErrorBlocks ==
    (InPass /\ \E i \in CallIdx :
                  /\ pass.calls[i].op = "apply"
                  /\ ~pass.calls[i].ok /\ pass.calls[i].code # Conflict)
        => (status.kind = "Blocked" /\ pass.exc = NoExc)

ReplanFailed == \E i \in CallIdx : pass.calls[i].op = "replan" /\ ~pass.calls[i].ok
VisibleStates == {"Waiting", "Blocked", "Maintenance", "Active"}

C10_BestEffortRemoval ==
    (charm = "controller" /\ pass.event = "remove") =>
        /\ Len(pass.calls) = 2
        /\ pass.calls[1].op = "delete" /\ pass.calls[1].group = "k8s"
        /\ pass.calls[2].op = "delete" /\ pass.calls[2].group = "crd"
        /\ LET failed == {i \in CallIdx : pass.calls[i].code \notin {0, NotFound}}
           IN  IF failed = {} THEN pass.exc = NoExc
               ELSE /\ pass.exc.type = "ApiError"
                    /\ \E i \in failed : pass.exc.code = pass.calls[i].code

\* C10 witness: the deletion of the auth/K8s group failed with a 500, the CRD
\* group was deleted all the same, and the handler raised the 500.
C10_Witness ==
    /\ charm = "controller" /\ pass.event = "remove"
    /\ Len(pass.calls) = 2
    /\ pass.calls[1].code = 500
    /\ pass.calls[2].op = "delete" /\ pass.calls[2].group = "crd" /\ pass.calls[2].ok
    /\ pass.exc = ApiError(500)

\* The removal handlers and what they are to remove.
RemovalEvents == {"remove", "resources-delete"}
RemovalTargets == IF pass.event = "remove" THEN RenderedDocuments ELSE UIResourceSet

\* C11: a removal (_on_remove of either charm, JupyterUIResources.delete) that
\* finds none of its objects in the cluster completes without raising, the 404
\* of each object being taken for success.
C11_DeleteIdempotent ==
    (pass.event \in RemovalEvents /\ pass.before \cap RemovalTargets = {})
        => pass.exc = NoExc

\* C12: whenever the remove handler finishes without raising, with the status
\* "K8S resources removed", no object of a rendered resource group is left in
\* the cluster, whichever of them were there before.
C12_RemovalCompleteness ==
    (/\ pass.event = "remove" /\ pass.exc = NoExc
     /\ status = MaintenanceStatus("K8S resources removed"))
        => cluster \cap RenderedDocuments = {}

\* C12 witness: the remove handler of jupyter-controller found some but not
\* all of the objects, returned normally and left none.
C12_Witness ==
    /\ charm = "controller" /\ pass.event = "remove"
    /\ pass.before # {} /\ pass.before # RenderedDocuments
    /\ pass.before \cap Documents("k8s") # Documents("k8s")
    /\ pass.exc = NoExc
    /\ status = MaintenanceStatus("K8S resources removed")
    /\ cluster = {}

CheckCalls == {i \in CallIdx : pass.calls[i].op = "get_check"}

\* C13: in the update-status handler of jupyter-controller the health check is
\* consulted only when the pass that was run again reached Active; when that
\* pass ended in Waiting, Blocked or Maintenance, the handler ends with that
\* same status, never Active.
C13_UpdateStatusSoundness ==
    (/\ charm = "controller" /\ pass.event = "update-status"
     /\ pass.reconciled.kind \in {"Waiting", "Blocked", "Maintenance"})
        => (CheckCalls = {} /\ status = pass.reconciled)

\* C14: on an update-status event of jupyter-controller whose pass completed
\* Active, a check "jupyter-controller-up" that is not UP leaves the unit in
\* Maintenance("Workload failed health check"), and the handler issues no
\* apply and no delete once the check has answered.
C14_HealthCheckDowngrade ==
    (/\ charm = "controller" /\ pass.event = "update-status"
     /\ pass.reconciled = ActiveStatus
     /\ \E i \in CheckCalls : pass.calls[i].group = "down")
        => /\ status = MaintenanceStatus("Workload failed health check")
           /\ pass.exc = NoExc
           /\ \A i \in CheckCalls : \A j \in CallIdx :
                  j > i => pass.calls[j].op \notin {"apply", "delete"}
           /\ Documents("k8s") \cup Documents("crd") \subseteq cluster

\* C14 witness: an update-status pass applied both groups, reached Active, and
\* the check that was down left the unit in Maintenance.
C14_Witness ==
    /\ charm = "controller" /\ pass.event = "update-status"
    /\ pass.reconciled = ActiveStatus
    /\ Len(pass.calls) >= 3
    /\ pass.calls[1].op = "apply" /\ pass.calls[1].ok
    /\ pass.calls[2].op = "apply" /\ pass.calls[2].ok
    /\ pass.calls[Len(pass.calls)].op = "get_check"
    /\ pass.calls[Len(pass.calls)].group = "down"
    /\ status = MaintenanceStatus("Workload failed health check")

UIReconcileEvents ==
    {"leader-elected", "upgrade", "config-changed", "relation-changed", "pebble-ready"}
BothIngressModes == UIRelations \subseteq relations
BothIngressBlocked ==
    BlockedStatus(
        "Cannot have both 'istio-ingress-route' and 'ingress' relations at the same time.")
\* The pass of jupyter-ui got as far as the comparison of the ingress relations.
UIPassReachedIngress ==
    /\ leader /\ canConnect /\ AppliesSucceeded /\ ~ReplanFailed
    /\ parse_gpu_num(gpuNumber).exc = NoExc
    /\ pass.event = "pebble-ready" => storages = UIStorages

\* C15 as claimed: in jupyter-ui, in every state where both the "ingress" and
\* the "istio-ingress-route" relation are present, a reconcile pass ends Blocked.
C15_IngressModesExclusive ==
    (charm = "ui" /\ pass.event \in UIReconcileEvents /\ BothIngressModes)
        => status.kind = "Blocked"

\* C15 as amended: with both relations present, a reconcile pass of jupyter-ui
\* ends Blocked, with no data sent on the ingress relation, when it gets as far
\* as the comparison of the relations: the unit is leader, the apply succeeded,
\* the container can be reached (for pebble-ready: and both storages exist),
\* the layer update succeeded and gpu-number-default is valid.  A non-leader
\* unit stops before: main-driven events end in Waiting for leadership.
C15_IngressModesAmended ==
    (charm = "ui" /\ pass.event \in UIReconcileEvents /\ BothIngressModes) =>
        /\ UIPassReachedIngress =>
              /\ status = BothIngressBlocked
              /\ pass.exc = NoExc
              /\ \A i \in CallIdx : pass.calls[i].op # "send_data"
        /\ (~leader /\ pass.event # "pebble-ready") => status = WaitingForLeadership

\* C15 witness: a leader jupyter-ui with both relations and a reachable
\* container has handled relation-changed and is Blocked.
C15_Witness ==
    /\ charm = "ui" /\ pass.event = "relation-changed"
    /\ BothIngressModes /\ UIPassReachedIngress
    /\ status = BothIngressBlocked

Applies(group) ==
    {i \in CallIdx : pass.calls[i].op = "apply" /\ pass.calls[i].group = group}
\* Each resource group of the charm was applied exactly once in the pass.
EachGroupAppliedOnce ==
    /\ Cardinality(Applies("k8s")) = 1
    /\ Cardinality(Applies("crd")) = (IF charm = "controller" THEN 1 ELSE 0)
FreshInstall == pass.event = "install" /\ leader /\ relations = {} /\ AppliesSucceeded

\* C16 as claimed: for a leader unit with no extra relations the install event
\* by itself applies each resource group exactly once and leaves the unit
\* Active.
C16_FreshInstallActive ==
    FreshInstall => (EachGroupAppliedOnce /\ status = ActiveStatus)

\* C16 as amended: for a leader unit with no extra relations the install event
\* by itself applies each resource group exactly once, leaves the Pebble plan
\* alone and the unit in Maintenance("K8S resources created"); Active is set
\* only by a later reconcile pass.
C16_FreshInstallAmended ==
    FreshInstall =>
        /\ EachGroupAppliedOnce
        /\ pass.exc = NoExc
        /\ status = MaintenanceStatus("K8S resources created")
        /\ plan = NoPlan
        /\ RenderedDocuments \subseteq cluster

\* C16 witness: the install of a leader jupyter-controller applied the auth/K8s
\* group, then the CRD group, and left the unit in Maintenance.
C16_Witness ==
    /\ charm = "controller" /\ FreshInstall
    /\ Len(pass.calls) = 2
    /\ pass.calls[1].group = "k8s" /\ pass.calls[2].group = "crd"
    /\ status = MaintenanceStatus("K8S resources created")

\* A reconcile-triggering event was handled by the leader, with a reachable
\* container, successful applies, a valid config and no mesh or ingress relation.
HealthyReconcile ==
    /\ pass.event \in ReconcileEvents \cup UIReconcileEvents
    /\ leader /\ canConnect /\ AppliesSucceeded
    /\ parse_gpu_num(gpuNumber).exc = NoExc
    /\ relations = {}

\* C17 as claimed: after any sequence of events and failed passes, a
\* reconcile-triggering event handled while the unit is leader, the container
\* is reachable, every apply succeeds, the config is valid and no mesh or
\* ingress relation is present ends Active.
C17_NoStickyFailure ==
    HealthyReconcile => status = ActiveStatus

\* C17 as amended: the same, provided also that the Pebble replan of the pass
\* succeeds, that the health check of an update-status answers UP, and that
\* both storages exist when jupyter-ui handles pebble-ready; whatever the
\* earlier passes left, the pass then returns normally and ends Active.
C17_NoStickyFailureAmended ==
    (/\ HealthyReconcile
     /\ ~ReplanFailed
     /\ \A i \in CheckCalls : pass.calls[i].ok
     /\ (charm = "ui" /\ pass.event = "pebble-ready") => storages = UIStorages)
        => (status = ActiveStatus /\ pass.exc = NoExc)

\* C17 witness: jupyter-controller handled config-changed in those conditions,
\* applied both groups and ended Active.
C17_Witness ==
    /\ charm = "controller" /\ pass.event = "config-changed"
    /\ HealthyReconcile /\ ~ReplanFailed
    /\ Cardinality(Applies("k8s")) = 1 /\ Cardinality(Applies("crd")) = 1
    /\ status = ActiveStatus

\* A leader pass with no extra relations succeeded: it ended Active with the
\* container reachable.
SuccessfulLeaderPass ==
    /\ pass.event \in ReconcileEvents \cup UIReconcileEvents
    /\ leader /\ canConnect /\ relations = {}
    /\ pass.exc = NoExc /\ status = ActiveStatus
PlanService == CHOOSE service \in plan : TRUE

\* C18: after a successful leader pass with no extra relations the Pebble plan
\* holds one service; for jupyter-controller its command is "./manager", its
\* environment has exactly 3 variables and ISTIO_GATEWAY is
\* "<model>/kubeflow-gateway"; for jupyter-ui its command is "gunicorn -w 3
\* --bind 0.0.0.0:<port> --access-logfile - entrypoint:app", its environment
\* has exactly 7 variables and CLUSTER_DOMAIN is "cluster.local".
C18_PlanContents ==
    SuccessfulLeaderPass =>
        /\ Cardinality(plan) = 1
        /\ charm = "controller" =>
              /\ PlanService.command = "./manager"
              /\ Cardinality(DOMAIN PlanService.environment) = 3
              /\ PlanService.environment.ISTIO_GATEWAY
                     = ControllerModelName \o "/kubeflow-gateway"
        /\ charm = "ui" =>
              /\ PlanService.command
                     = "gunicorn -w 3 --bind 0.0.0.0:" \o UIConfig.port
                           \o " --access-logfile - entrypoint:app"
              /\ Cardinality(DOMAIN PlanService.environment) = 7
              /\ PlanService.environment.CLUSTER_DOMAIN = "cluster.local"

AllApplies == {i \in CallIdx : pass.calls[i].op = "apply"}

\* C19: every apply a charm issues, through the handler of the auth/K8s group
\* or of the CRD group, forced or not, uses one and the same field manager.
C19_SingleFieldManager ==
    /\ \A i, j \in AllApplies : pass.calls[i].manager = pass.calls[j].manager
    /\ \A i \in AllApplies : pass.calls[i].manager = lightkube_field_manager

\* C19 witness: a pass applied both groups, one of them forced after a 409 and
\* one of them not, all with the manager "lightkube".
C19_Witness ==
    /\ \E i, j, k \in AllApplies :
          /\ pass.calls[i].group = "k8s" /\ ~pass.calls[i].force
          /\ pass.calls[j].group = "k8s" /\ pass.calls[j].force
          /\ pass.calls[k].group = "crd" /\ ~pass.calls[k].force /\ pass.calls[k].ok
    /\ \A i \in AllApplies : pass.calls[i].manager = "lightkube"

\* C20: in jupyter-ui, handling pebble-ready (the container being reachable)
\* while the "config" or the "logos" storage is not available fails with an
\* ErrorWithStatus that carries a WaitingStatus "Waiting for ... storage".
C20_MissingStorageRaises ==
    (/\ charm = "ui" /\ pass.event = "pebble-ready"
     /\ canConnect /\ storages # UIStorages)
        => /\ pass.exc.type = "ErrorWithStatus"
           /\ pass.exc.status \in {WaitingStatus("Waiting for \"config\" storage"),
                                   WaitingStatus("Waiting for \"logos\" storage")}

(***************************************************************************)
(* The config of jupyter-ui                                                *)
(***************************************************************************)
GetFromConfigReturned == returned.fn = "_get_from_config"

\* C21: _get_from_config never raises: for every key it handles and every
\* value of that key, invalid ones included, it returns a result.
C21_GetFromConfigNeverRaises ==
    GetFromConfigReturned => returned.exc = NoExc

\* The pass of jupyter-ui got as far as _update_spawner_ui_config.
UIPassReachedSpawnerConfig ==
    /\ charm = "ui" /\ pass.event \in UIReconcileEvents
    /\ leader /\ canConnect /\ AppliesSucceeded /\ ~ReplanFailed
    /\ pass.event = "pebble-ready" => storages = UIStorages
SpawnerConfigPushed ==
    \E i \in CallIdx : pass.calls[i].op = "push"
                          /\ pass.calls[i].group = "spawner_ui_config.yaml"
ImageConfigsScan ==
    \A k \in IMAGE_CONFIGS : yaml_safe_load(config[k]).exc # ScannerError
Decimal(n) ==
    CASE n = 1 -> "1" [] n = 2 -> "2" [] n = 4 -> "4" [] n = 8 -> "8"

C23_ValidateOptions ==
    returned.fn = "validate_options_with_default" =>
        LET default == returned.args[1]
            options == returned.args[2]
            option_index_key == returned.args[3]
            required_keys == returned.args[4]
            wellFormed ==
                \A i \in DOMAIN options :
                    /\ options[i].kind = "dict"
                    /\ \A k \in DOMAIN required_keys : HasKey(options[i], required_keys[k])
            defaultFound ==
                \/ default.kind = "none" \/ default.str = ""
                \/ \E i \in DOMAIN options :
                      /\ HasKey(options[i], option_index_key)
                      /\ GetItem(options[i], option_index_key) = default.str
        IN  IF wellFormed /\ defaultFound
            THEN returned.exc = NoExc /\ returned.value = TRUE
            ELSE returned.exc = ConfigValidationError

ListConfigs == IMAGE_CONFIGS \cup {DEFAULT_PODDEFAULTS_CONFIG}

\* C24: for every value of an image list or of default-poddefaults,
\* _get_from_config returns an OptionsWithDefault whose default is the first
\* of its options, "" when it has none; an unset image config gives the list
\* of the default images file, an empty list no options, and a value that is
\* not a list or cannot be parsed the empty result.
C24_ListConfigDefaults ==
    (GetFromConfigReturned /\ returned.args[1] \in ListConfigs) =>
        LET key == returned.args[1]
            loaded == yaml_safe_load(config[key])
            result == returned.value
        IN  /\ returned.exc = NoExc
            /\ result.default = IF result.options.items # <<>>
                                 THEN result.options.items[1] ELSE YStr("")
            /\ (key \in IMAGE_CONFIGS /\ config[key] = "")
                  => result.options = yaml_safe_load(DefaultImagesFile(key)).value
            /\ (loaded.exc = NoExc /\ loaded.value = YList(<<>>))
                  => result.options.items = <<>>
            /\ (loaded.exc # NoExc \/ loaded.value.kind \notin {"list", "none"})
                  => result = EmptyOptionsWithDefault

(***************************************************************************)
(* The status and the prior status                                         *)
(***************************************************************************)
\* Statuses the unit may have when a handler starts.
PriorStatuses ==
    {UnknownStatus, ActiveStatus, BlockedStatus("Failed to replan"),
     WaitingStatus("Waiting for leadership")}
StartFrom(st) == [Start EXCEPT !.status = st]
\* The handlers that can run in this state, and the outcomes each draws from.
Handlers ==
    IF phase = "new" THEN {"install"}
    ELSE IF phase = "removed" THEN {}
    ELSE IF charm = "controller" THEN {"event", "upgrade", "update-status", "remove"}
    ELSE {"main", "pebble-ready", "remove"}
HandlerInputs(h) ==
    IF charm = "controller"
    THEN CASE h = "install" -> CtrlInputs({0}, {"up"}, TRUE)
           [] h = "event" -> CtrlInputs({0}, {"up"}, canConnect /\ leader)
           [] h = "upgrade" -> CtrlInputs(ForcedApplyOutcomes, {"up"}, canConnect /\ leader)
           [] h = "update-status" -> CtrlInputs({0}, CheckOutcomes, canConnect /\ leader)
           [] h = "remove" -> DeleteInputs(DeleteOutcomes)
    ELSE CASE h = "install" -> UIInputs({TRUE}, {"ok"}, TRUE, FALSE)
           [] h = "main" -> UIInputs(BOOLEAN, InterfaceOutcomes, leader, canConnect)
           [] h = "pebble-ready"
                -> UIInputs(BOOLEAN, InterfaceOutcomes,
                            leader /\ canConnect /\ storages = UIStorages, canConnect)
           [] h = "remove" -> DeleteInputs({0})
\* The status the handler leaves when it starts from x with the outcomes in.
StatusAfter(h, x, in) ==
    IF charm = "controller"
    THEN CASE h = "install" -> Ctrl_on_install_run(x, in).status
           [] h = "event" -> Ctrl_on_event(x, FALSE, in).status
           [] h = "upgrade" -> Ctrl_on_upgrade_run(x, in).status
           [] h = "update-status" -> Ctrl_on_update_status_run(x, in).status
           [] h = "remove" -> Ctrl_on_remove_run(x, in).status
    ELSE CASE h = "install" -> UI_on_install_run(x, in).status
           [] h = "main" -> UI_main_run(x, in).status
           [] h = "pebble-ready" -> UI_on_pebble_ready_run(x, in).status
           [] h = "remove" -> UI_on_remove_run(x, in).status

\* C25: in both charms the status a handler leaves is a function of the inputs
\* of the event only: run on the same facts, plan and call outcomes from any
\* other prior status, the handler ends with the same status.
C25_StatusHasNoMemory ==
    \A h \in Handlers : \A in \in HandlerInputs(h) : \A st \in PriorStatuses :
        StatusAfter(h, StartFrom(st), in) = StatusAfter(h, Start, in)

\* C25 witness: a handler has run, and a handler run from the status it left
\* and from another prior status ends with one status that is neither of them.
C25_Witness ==
    /\ InPass
    /\ \E h \in Handlers : \E in \in HandlerInputs(h) : \E st \in PriorStatuses :
          /\ st # status
          /\ StatusAfter(h, StartFrom(st), in) = StatusAfter(h, Start, in)
          /\ StatusAfter(h, Start, in) \notin {st, status}

(***************************************************************************)
(* The order of the steps of a pass                                        *)
(***************************************************************************)
\* The group was applied successfully among the calls before the i-th: its
\* last apply there returned.
AppliedBefore(group, i) ==
    \E j \in Applies(group) :
        /\ j < i /\ pass.calls[j].ok
        /\ \A k \in Applies(group) : k < i => k <= j
\* The status _on_event left in a pass of jupyter-controller.
OnEventStatus == IF pass.event = "update-status" THEN pass.reconciled ELSE status
\* The layer _jupyter_controller_layer computes from the facts of the state.
CtrlLayer ==
    Ctrl_jupyter_controller_layer(Ctrl_get_gateway_info, Ctrl_set_istio_configurations)

\* C26: in a pass of jupyter-controller the Pebble layer is added only after
\* both resource groups were applied successfully in that pass, and _on_event
\* sets Active only when both were applied and the plan holds the layer;
\* install, which only applies the resources, touches no layer and leaves
\* Maintenance("K8S resources created") when the applies succeed, never Active.
C26_StepOrdering ==
    /\ (charm = "controller" /\ InPass) =>
          \A i \in CallIdx :
              pass.calls[i].op \in {"add_layer", "replan"}
                  => (AppliedBefore("k8s", i) /\ AppliedBefore("crd", i))
    /\ (charm = "controller" /\ pass.event \in ReconcileEvents
            /\ OnEventStatus = ActiveStatus) =>
          /\ AppliedBefore("k8s", Len(pass.calls) + 1)
          /\ AppliedBefore("crd", Len(pass.calls) + 1)
          /\ plan = CtrlLayer /\ ~ReplanFailed
    /\ pass.event = "install" =>
          /\ status.kind # "Active"
          /\ ~LayerUpdated
          /\ pass.exc = NoExc => status = MaintenanceStatus("K8S resources created")

\* C26 witness: a pass of jupyter-controller applied both groups, then added
\* the layer, replanned and ended Active.
C26_Witness ==
    /\ charm = "controller" /\ pass.event \in ReconcileEvents
    /\ LayerUpdated /\ ~ReplanFailed /\ OnEventStatus = ActiveStatus
    /\ Applies("k8s") # {} /\ Applies("crd") # {}

ForcedApplies(group) == {i \in Applies(group) : pass.calls[i].force}

\* C27: in _apply_k8s_resources the auth/K8s group is applied before the CRD
\* group, and the CRD group only when the auth/K8s group went through, at once
\* or by its forced retry; a forced apply of a group comes only in a pass with
\* force_conflicts set (upgrade), right after the apply of that group that
\* answered 409, and at most once for the group.
C27_ApplyProtocol ==
    (charm = "controller" /\ InPass) =>
        /\ \A i \in Applies("k8s") : \A j \in Applies("crd") : i < j
        /\ \A j \in Applies("crd") : AppliedBefore("k8s", j)
        /\ \A group \in {"k8s", "crd"} :
              /\ Cardinality(ForcedApplies(group)) <= 1
              /\ \A i \in ForcedApplies(group) :
                    /\ pass.event = "upgrade"
                    /\ i - 1 \in Applies(group)
                    /\ ~pass.calls[i - 1].force
                    /\ pass.calls[i - 1].code = Conflict

\* C27 witness: an upgrade applied the auth/K8s group, got 409, applied it
\* again with force, and went on to the CRD group.
C27_Witness ==
    /\ charm = "controller" /\ pass.event = "upgrade"
    /\ \E i \in ForcedApplies("k8s") : pass.calls[i].ok
    /\ Applies("crd") # {}

\* The pass of _on_event came to the layer: the unit leads, the container
\* answers and both groups were applied.
ReachedGatewayInfo ==
    /\ charm = "controller" /\ pass.event \in ReconcileEvents
    /\ leader /\ canConnect
    /\ AppliedBefore("k8s", Len(pass.calls) + 1)
    /\ AppliedBefore("crd", Len(pass.calls) + 1)
ServiceMesh == SERVICE_MESH_RELATION \in relations
GatewayMetadataRelation == AMBIENT_GATEWAY_RELATION \in relations

\* C28: _get_gateway_info returns ("kubeflow", "kubeflow-gateway") with neither
\* relation and the namespace and name of the gateway-metadata data when that
\* data is there; a pass of _on_event that comes to it ends Blocked with
\* service-mesh and no gateway-metadata, Waiting with gateway-metadata and no
\* data yet, and adds no layer in either case; a layer it adds otherwise
\* carries the returned namespace and name.
C28_GatewayResolution ==
    charm = "controller" =>
        /\ (~ServiceMesh /\ ~GatewayMetadataRelation) =>
              Ctrl_get_gateway_info =
                  [exc |-> NoExc, namespace |-> "kubeflow", name |-> "kubeflow-gateway"]
        /\ (GatewayMetadataRelation /\ gatewayMetadata) =>
              Ctrl_get_gateway_info =
                  [exc |-> NoExc, namespace |-> "istio-system", name |-> "ambient-gateway"]
        /\ (ReachedGatewayInfo /\ ServiceMesh /\ ~GatewayMetadataRelation) =>
              /\ OnEventStatus.kind = "Blocked" /\ ~LayerUpdated
        /\ (ReachedGatewayInfo /\ GatewayMetadataRelation /\ ~gatewayMetadata) =>
              /\ OnEventStatus.kind = "Waiting" /\ ~LayerUpdated
        /\ (ReachedGatewayInfo /\ LayerUpdated) =>
              /\ PlanService.environment.K8S_GATEWAY_NAMESPACE
                     = Ctrl_get_gateway_info.namespace
              /\ PlanService.environment.K8S_GATEWAY_NAME = Ctrl_get_gateway_info.name

\* C28 witness: a config-changed pass applied both groups with service-mesh
\* related and gateway-metadata not, and ended Blocked without a layer.
C28_Witness ==
    /\ ReachedGatewayInfo /\ pass.event = "config-changed"
    /\ ServiceMesh /\ ~GatewayMetadataRelation
    /\ status = BlockedStatus("Service mesh relation present without gateway metadata relation")
    /\ ~LayerUpdated

\* A pass of jupyter-controller wrote a layer; the plan holds it.
CtrlLayerWritten == charm = "controller" /\ InPass /\ LayerUpdated

\* C29: in every layer jupyter-controller writes, one of USE_ISTIO and
\* USE_GATEWAY_API is "true" and the other "false", USE_GATEWAY_API is "true"
\* exactly when the service-mesh relation is there, and then K8S_GATEWAY_NAME
\* and K8S_GATEWAY_NAMESPACE are those of the gateway-metadata data, which is
\* there, and not the defaults.
C29_IstioModeExclusive ==
    CtrlLayerWritten =>
        LET environment == PlanService.environment
        IN  /\ {environment.USE_ISTIO, environment.USE_GATEWAY_API} = {"true", "false"}
            /\ environment.USE_GATEWAY_API = "true" <=> ServiceMesh
            /\ environment.USE_GATEWAY_API = "true" =>
                  /\ GatewayMetadataRelation /\ gatewayMetadata
                  /\ environment.K8S_GATEWAY_NAME = AmbientData.gateway_name
                  /\ environment.K8S_GATEWAY_NAMESPACE = AmbientData.namespace
                  /\ environment.K8S_GATEWAY_NAME # "kubeflow-gateway"
                  /\ environment.K8S_GATEWAY_NAMESPACE # "kubeflow"

\* C29 witness: a layer was written with the service-mesh relation there; it
\* says USE_GATEWAY_API "true" and names the gateway of the relation data.
C29_Witness ==
    /\ CtrlLayerWritten /\ ServiceMesh
    /\ PlanService.environment.USE_GATEWAY_API = "true"
    /\ PlanService.environment.USE_ISTIO = "false"
    /\ PlanService.environment.K8S_GATEWAY_NAME = "ambient-gateway"

\* The calls of the given name among the given calls.
CallsOf(calls, op) == {i \in 1 .. Len(calls) : calls[i].op = op}

\* C30: every pass of jupyter-ui adds the layer, and replans, only when the
\* services of the plan it finds differ from those of _jupyter_ui_layer, the
\* replan coming right after the add_layer, and the plan then holds the layer;
\* a pass that finds the plan holding the layer (as the pass before it, under
\* the same configuration, left it) adds nothing, replans nothing and leaves
\* the plan as it is.
C30_LayerSyncIdempotent ==
    [][(charm = "ui" /\ pass'.event # "none") =>
          LET added == CallsOf(pass'.calls, "add_layer")
              replanned == CallsOf(pass'.calls, "replan")
          IN  /\ (added # {} \/ replanned # {}) => plan # UI_jupyter_ui_layer
              /\ Cardinality(added) <= 1
              /\ replanned = {i + 1 : i \in added}
              /\ added # {} => plan' = UI_jupyter_ui_layer
              /\ plan = UI_jupyter_ui_layer =>
                    (added = {} /\ replanned = {} /\ plan' = plan)]_vars

\* C30 witness: a config-changed pass of jupyter-ui went through _update_layer,
\* pushed the spawner configuration and ended Active without add_layer and
\* without replan, the plan holding the layer.
C30_Witness ==
    /\ charm = "ui" /\ pass.event = "config-changed"
    /\ SpawnerConfigPushed /\ status = ActiveStatus
    /\ CallsOf(pass.calls, "add_layer") = {} /\ CallsOf(pass.calls, "replan") = {}
    /\ plan = UI_jupyter_ui_layer

\* C31: jupyter-ui sends data on the "ingress" relation only in a pass of a
\* leader whose apply succeeded, with the container reachable, without the
\* "istio-ingress-route" relation and after get_interfaces returned; what it
\* sends is prefix = url-prefix + "/", rewrite = "/", service = the application
\* name and port = the configured port.
C31_IngressDataGate ==
    (charm = "ui" /\ InPass) =>
        \A i \in CallsOf(pass.calls, "send_data") :
            /\ leader /\ canConnect
            /\ AppliesSucceeded /\ \E j \in Applies("k8s") : j < i
            /\ ISTIO_INGRESS_ROUTE_RELATION \notin relations
            /\ \E j \in CallsOf(pass.calls, "get_interfaces") : j < i /\ pass.calls[j].ok
            /\ pass.calls[i].group = "ingress"
            /\ pass.calls[i].data = [prefix |-> "/jupyter/", rewrite |-> "/",
                                     service |-> "jupyter-ui", port |-> "5000"]

\* C31 witness: a relation-changed pass of jupyter-ui sent the data on the
\* "ingress" relation and ended Active.
C31_Witness ==
    /\ charm = "ui" /\ pass.event = "relation-changed"
    /\ CallsOf(pass.calls, "send_data") # {}
    /\ status = ActiveStatus

\* C32: while both the "ingress" and the "istio-ingress-route" relations are
\* there, no pass of jupyter-ui publishes routing configuration: no send_data
\* on "ingress" and no submit_config on "istio-ingress-route".
C32_NoImplicitPrecedence ==
    (charm = "ui" /\ InPass /\ BothIngressModes) =>
        /\ CallsOf(pass.calls, "send_data") = {}
        /\ CallsOf(pass.calls, "submit_config") = {}

\* C33: a unit that is not the leader publishes nothing: a pass of jupyter-ui
\* handled by such a unit submits no istio-ingress-route config and sends no
\* ingress data, and the application data of a sidebar relation changes only
\* in a step of the leader.
C33_NonLeaderNeverPublishes ==
    [][/\ (charm = "ui" /\ pass'.event # "none" /\ ~leader') =>
             /\ CallsOf(pass'.calls, "submit_config") = {}
             /\ CallsOf(pass'.calls, "send_data") = {}
       /\ sidebar'.data # sidebar.data => (leader /\ leader')]_vars

\* C33 witness: a unit that is not the leader handled the joined event of a
\* sidebar relation, whose data is still unwritten, and then config-changed,
\* which it left waiting for leadership.
C33_Witness ==
    /\ charm = "ui" /\ ~leader /\ pass.event = "config-changed"
    /\ status = WaitingForLeadership
    /\ sidebar.event.name = "relation-joined" /\ ~sidebar.event.leader
    /\ sidebar.data[sidebar.event.relation] = Unset

TensorboardsJson ==
    "[{\"position\": 3, \"type\": \"item\", \"link\": \"/tensorboards/\", "
        \o "\"text\": \"Tensorboards\", \"icon\": \"assessment\"}]"

\* C36: when the last sidebar event was handled by the leader, the key "config"
\* of the application data of its relation is the JSON text of the configured
\* links after relation-joined and the JSON empty list "[]" after
\* relation-departed, whatever events came before.
C36_SidebarProtocol ==
    (sidebar.event.name # "none" /\ sidebar.event.leader) =>
        LET value == sidebar.data[sidebar.event.relation]
        IN  /\ sidebar.event.name = "relation-joined" =>
                  /\ value = json_dumps(sidebar.sidebar_link)
                  /\ sidebar.sidebar_link = <<>> => value = "[]"
                  /\ sidebar.sidebar_link = <<TensorboardsLink>> => value = TensorboardsJson
            /\ sidebar.event.name = "relation-departed" => value = "[]"

\* C36 witness: the leader handled joined, joined and departed on relation 1,
\* whose key holds "[]" although a remote unit is left, while relation 2 holds
\* the links of its joined event.
C36_Witness ==
    /\ sidebar.event = [name |-> "relation-departed", relation |-> 1, leader |-> TRUE]
    /\ sidebar.units[1] = 1
    /\ sidebar.data[1] = "[]"
    /\ sidebar.data[2] = TensorboardsJson

\* get_interfaces raised in the pass.
InterfacesFailed ==
    \E i \in CallsOf(pass.calls, "get_interfaces") : ~pass.calls[i].ok

\* C34: a pass of jupyter-ui in which get_interfaces raised ends Waiting when the
\* exception was NoVersionsListed and Blocked when it was NoCompatibleVersions
\* (the status carries the text of the exception); it returns without sending
\* ingress data and is not Active.
C34_InterfaceNegotiation ==
    (charm = "ui" /\ InPass /\ InterfacesFailed) =>
        /\ status \in {WaitingStatus("NoVersionsListed"),
                        BlockedStatus("NoCompatibleVersions")}
        /\ status.kind # "Active"
        /\ pass.exc = NoExc
        /\ CallsOf(pass.calls, "send_data") = {}

\* C34 witness: a pebble-ready pass ended Blocked on NoCompatibleVersions.
C34_Witness ==
    /\ charm = "ui" /\ pass.event = "pebble-ready" /\ InterfacesFailed
    /\ status = BlockedStatus("NoCompatibleVersions")

LogosPushed ==
    \E i \in CallsOf(pass.calls, "push") : pass.calls[i].group = "logos"

\* C35: _on_pebble_ready pushes the logos files and goes on to main only when
\* the container can be reached and both storages exist: then the logos are
\* pushed first and main runs (it applies the resources, or leaves Waiting for
\* leadership); otherwise nothing is pushed, nothing applied, no layer added,
\* and the status is Maintenance for an unreachable container and Waiting for a
\* missing storage.
C35_PebbleReadyGate ==
    (charm = "ui" /\ pass.event = "pebble-ready") =>
        /\ (LogosPushed \/ CallsOf(pass.calls, "push") # {} \/ ~NoApply \/ LayerUpdated)
              => (canConnect /\ storages = UIStorages)
        /\ (canConnect /\ storages = UIStorages) =>
              /\ LogosPushed
              /\ \A i \in CallIdx :
                    pass.calls[i].op \in {"push", "apply", "add_layer", "replan"}
                        => \E j \in CallsOf(pass.calls, "push") :
                              j <= i /\ pass.calls[j].group = "logos"
              /\ IF leader THEN ~NoApply ELSE status = WaitingForLeadership
        /\ ~canConnect =>
              status = MaintenanceStatus("Waiting for pod startup to complete")
        /\ (canConnect /\ storages # UIStorages) =>
              /\ status.kind = "Waiting"
              /\ status.msg = IF "config" \notin storages
                              THEN "Waiting for \"config\" storage"
                              ELSE "Waiting for \"logos\" storage"
        /\ ~(canConnect /\ storages = UIStorages) => pass.exc = NoExc

\* C35 witness: pebble-ready on a leader whose container answers but whose
\* "logos" storage is missing: nothing pushed or applied, Waiting.
C35_Witness ==
    /\ charm = "ui" /\ pass.event = "pebble-ready" /\ leader
    /\ canConnect /\ storages = {"config"}
    /\ status = WaitingStatus("Waiting for \"logos\" storage")
    /\ CallsOf(pass.calls, "push") = {} /\ NoApply

\* C37: JupyterUIResources.apply creates an object only when the cluster does
\* not hold it and patches it only when it does; an apply that returns leaves
\* every cluster role and service in the cluster; and an apply that follows an
\* apply that returned, nothing having touched the cluster in between, creates
\* nothing and leaves the cluster objects as the first one left them.
C37_ApplyIdempotent ==
    [][pass'.event = "resources-apply" =>
          /\ \A i \in CallsOf(pass'.calls, "create") : pass'.calls[i].group \notin cluster
          /\ \A i \in CallsOf(pass'.calls, "patch") : pass'.calls[i].group \in cluster
          /\ pass'.exc = NoExc => UIResourceSet \subseteq cluster'
          /\ (pass.event = "resources-apply" /\ pass.exc = NoExc) =>
                /\ CallsOf(pass'.calls, "create") = {}
                /\ cluster' = cluster]_vars

\* C37 witness: an apply found both objects, patched them and returned.
C37_Witness ==
    /\ pass.event = "resources-apply" /\ pass.exc = NoExc
    /\ Len(pass.calls) = 2
    /\ \A i \in CallIdx : pass.calls[i].op = "patch"
    /\ UIResourceSet \subseteq cluster

====
